---- MODULE Spec2Model ----
(***************************************************************************)
(* Polyphonic MIDI synthesizer (midi_poly_synth.py, mpk_only_synth.py).    *)
(*                                                                         *)
(* The voice pool self.voices is a Python dict: a note -> voice mapping    *)
(* that iterates in insertion order.  It is modelled as the sequence of    *)
(* its voice records in insertion order.                                   *)
(*                                                                         *)
(* The specifications share the variables:                                 *)
(*   Spec          each handler (note_on, note_off, audio_callback) runs   *)
(*                 to completion as one step: the handlers' sequential     *)
(*                 contracts;                                              *)
(*   SpecLive      the same handlers with the audio sink calling back for  *)
(*                 ever (weak fairness of audio_callback);                 *)
(*   SpecVoice     one PolyphonicVoice object driven directly through      *)
(*                 generate() and release(), its ADSR settings drawn from  *)
(*                 sets that include 0;                                    *)
(*   SpecThreads   the MIDI callback thread and the audio callback thread  *)
(*                 interleaved at the level of the single dict operations  *)
(*                 (the code takes no lock anywhere);                      *)
(*   SpecControl   notes mixed with parameter writes (knobs, pots), each   *)
(*                 handler as one step, for both synthesizer classes;      *)
(*   SpecRuntime   the MIDI, audio and pot-polling threads of a running    *)
(*                 FourPotMIDISynth interleaved;                           *)
(*   SpecLifecycle the same threads from construction through start(),     *)
(*                 Ctrl+C and stop();                                      *)
(*   SpecLifecycleLive  the same under fair scheduling of the pot thread   *)
(*                 and of stop()'s join;                                   *)
(*   SpecInputs    midi_callback on any message, and the pot thread on any *)
(*                 reading: dispatch, clamping and thresholds;             *)
(*   SpecMix       notes and master volume settings of an MPKOnlySynth in  *)
(*                 front of the output stage of audio_callback.            *)
(***************************************************************************)
EXTENDS Integers, Sequences, FiniteSets, TLC

\* ------------------------------------------------------------------ bounds
\* Size of the modelled instance.  The synthesizers set max_voices to 12 and
\* 16; the pool logic is the same for any value.
max_voices == 2
\* Constructor arguments of the modelled instance (main passes 44100 and
\* 512): dt = blocksize/sample_rate is 0.4 s, so that an envelope completes
\* within a few blocks.
sample_rate == 1000
blocksize == 400

\* MIDI note numbers the keyboard sends, and the velocities.
Notes == {60, 64, 67}
Velocities == {100}

\* ------------------------------------------------------------- numbers
\* Times are whole milliseconds.  Levels in [0, 1] (envelope value, sustain
\* level, progress, envelope_control, master_volume) are whole multiples of
\* 1/EnvOne; EnvOne is chosen so that every division below is exact for the
\* settings that occur.
EnvOne == 2 * 3 * 3 * 5 * 7

Min(x, y) == IF x <= y THEN x ELSE y

\* ---------------------------------------------------------------- state
VARIABLES
    \* FourPotMIDISynth fields
    voices,            \* self.voices, in insertion order
    master_volume, waveform, filter_cutoff, envelope_control, detune,
    \* which class the instance is ("FourPot": FourPotMIDISynth, "MPK":
    \* MPKOnlySynth), and MPKOnlySynth's envelope fields (0 in a FourPot
    \* instance, which has none)
    variant, attack_time, decay_time, sustain_level, release_time,
    \* the message rtmidi hands to midi_callback, and how many times it has
    \* been delivered
    message, delivered,
    \* the block that the last generate() call made on a voice directly has
    \* returned, and the envelope phase it left the voice in
    generated,
    \* the audio sink's buffer, one entry per channel
    outdata,
    \* audio callback thread: position and locals of audio_callback
    a_pc, voices_to_remove, a_iter, a_del, a_exc,
    \* the (waveform, filter_cutoff, detune) triples that the generate() calls
    \* of the block being rendered have been given
    a_args,
    \* pot-polling thread: self.pot_running, the thread's position and the
    \* four raw readings it holds
    pot_running, pot_pc, pot_raw,
    \* the main thread's position in start() and stop(), self.running, the
    \* output stream and the MIDI input port
    main_pc, running, stream, midiin,
    \* MIDI callback thread: position and locals of midi_callback/note_on/note_off
    m_pc, m_op, m_note, m_velocity, envelope_params, oldest_note, m_retrig, m_exc

param_vars == <<master_volume, waveform, filter_cutoff, envelope_control, detune,
                attack_time, decay_time, sustain_level, release_time>>
\* everything the note and audio handlers leave alone
pot_vars == <<pot_running, pot_pc, pot_raw>>
life_vars == <<main_pc, running, stream, midiin>>
synth_vars == <<param_vars, variant, message, delivered, generated, pot_vars, life_vars>>
audio_vars == <<a_pc, voices_to_remove, a_iter, a_del, a_exc, a_args>>
midi_vars == <<m_pc, m_op, m_note, m_velocity, envelope_params, oldest_note, m_retrig, m_exc>>
vars == <<voices, synth_vars, outdata, audio_vars, midi_vars>>

\* None, for a local that holds no note.
NoNote == -1
NoParams == [attack |-> 0, decay |-> 0, sustain |-> 0, release |-> 0]
NoIter == [pos |-> 0, len |-> 0, used |-> 0]
NoAudio == [source |-> "none", waveform |-> 0, filter_cutoff |-> 0, envelope |-> 0,
            velocity |-> <<0, 127>>, envelope_phase |-> "none"]

\* ------------------------------------------------------------ the voice
\* dt = frames / self.sample_rate, in ms
BlockTime(frames) == (frames * 1000) \div sample_rate

\* envelope_timer grows by dt on every update for as long as the voice is
\* held.  It is only ever compared with an ADSR time, so every value from
\* TimerCap on behaves alike: the model keeps the timer at TimerCap (ms),
\* which is above every ADSR time that occurs.
TimerCap == 2 * BlockTime(blocksize)

\* PolyphonicVoice.__init__
PolyphonicVoice(note, velocity, params) ==
    [note |-> note,
     velocity |-> <<velocity, 127>>,
     phase |-> 0,
     attack_time |-> params.attack,
     decay_time |-> params.decay,
     sustain_level |-> params.sustain,
     release_time |-> params.release,
     envelope_phase |-> "attack",
     envelope_value |-> 0,
     envelope_timer |-> 0,
     releasing |-> FALSE,
     filter_state |-> 0]

\* Mutant of release: the phase-local timer is not reset.
release_keep_timer(v) ==
    [v EXCEPT !.releasing = TRUE,
              !.envelope_phase = "release"]

\* Mutant of release: only the flag is set, the phase is left alone.
release_flag_only(v) == [v EXCEPT !.releasing = TRUE]

\* Mutant of release: the envelope value is taken to 0 as well.
release_zero_value(v) ==
    [v EXCEPT !.releasing = TRUE,
              !.envelope_phase = "release",
              !.envelope_timer = 0,
              !.envelope_value = 0]

\* PolyphonicVoice.release
release(v) ==
    [v EXCEPT !.releasing = TRUE,
              !.envelope_phase = "release",
              !.envelope_timer = 0]

\* Mutant of is_finished: a voice held in Sustain counts as finished too.
is_finished_or_sustained(v) == v.envelope_phase \in {"finished", "sustain"}

\* PolyphonicVoice.is_finished
is_finished(v) == v.envelope_phase = "finished"

\* Mutant of update_envelope: Release ramps down from the value the envelope
\* has, not from the sustain level.
update_envelope_from_value(v, frames) ==
    LET t == Min(TimerCap, v.envelope_timer + BlockTime(frames))
        v1 == [v EXCEPT !.envelope_timer = t]
    IN  CASE v.envelope_phase = "attack" ->
                IF v.attack_time > 0
                THEN LET progress == Min(EnvOne, (t * EnvOne) \div v.attack_time)
                     IN  IF progress >= EnvOne
                         THEN [v1 EXCEPT !.envelope_value = progress,
                                         !.envelope_phase = "decay",
                                         !.envelope_timer = 0]
                         ELSE [v1 EXCEPT !.envelope_value = progress]
                ELSE [v1 EXCEPT !.envelope_value = EnvOne,
                                !.envelope_phase = "decay"]
          [] v.envelope_phase = "decay" ->
                IF v.decay_time > 0
                THEN LET progress == Min(EnvOne, (t * EnvOne) \div v.decay_time)
                         value == EnvOne - (progress * (EnvOne - v.sustain_level))
                                             \div EnvOne
                     IN  IF progress >= EnvOne
                         THEN [v1 EXCEPT !.envelope_value = value,
                                         !.envelope_phase = "sustain"]
                         ELSE [v1 EXCEPT !.envelope_value = value]
                ELSE [v1 EXCEPT !.envelope_value = v.sustain_level,
                                !.envelope_phase = "sustain"]
          [] v.envelope_phase = "sustain" ->
                [v1 EXCEPT !.envelope_value = v.sustain_level]
          [] v.envelope_phase = "release" ->
                IF v.release_time > 0
                THEN LET progress == Min(EnvOne, (t * EnvOne) \div v.release_time)
                         value == (v.envelope_value * (EnvOne - progress))
                                     \div EnvOne
                     IN  IF progress >= EnvOne
                         THEN [v1 EXCEPT !.envelope_value = value,
                                         !.envelope_phase = "finished"]
                         ELSE [v1 EXCEPT !.envelope_value = value]
                ELSE [v1 EXCEPT !.envelope_phase = "finished"]
          [] OTHER -> v1

\* Mutant of update_envelope: progress is not clamped to 1.
update_envelope_unclamped(v, frames) ==
    LET t == Min(TimerCap, v.envelope_timer + BlockTime(frames))
        v1 == [v EXCEPT !.envelope_timer = t]
    IN  CASE v.envelope_phase = "attack" ->
                IF v.attack_time > 0
                THEN LET progress == (t * EnvOne) \div v.attack_time
                     IN  IF progress >= EnvOne
                         THEN [v1 EXCEPT !.envelope_value = progress,
                                         !.envelope_phase = "decay",
                                         !.envelope_timer = 0]
                         ELSE [v1 EXCEPT !.envelope_value = progress]
                ELSE [v1 EXCEPT !.envelope_value = EnvOne,
                                !.envelope_phase = "decay"]
          [] v.envelope_phase = "decay" ->
                IF v.decay_time > 0
                THEN LET progress == (t * EnvOne) \div v.decay_time
                         value == EnvOne - (progress * (EnvOne - v.sustain_level))
                                             \div EnvOne
                     IN  IF progress >= EnvOne
                         THEN [v1 EXCEPT !.envelope_value = value,
                                         !.envelope_phase = "sustain"]
                         ELSE [v1 EXCEPT !.envelope_value = value]
                ELSE [v1 EXCEPT !.envelope_value = v.sustain_level,
                                !.envelope_phase = "sustain"]
          [] v.envelope_phase = "sustain" ->
                [v1 EXCEPT !.envelope_value = v.sustain_level]
          [] v.envelope_phase = "release" ->
                IF v.release_time > 0
                THEN LET progress == (t * EnvOne) \div v.release_time
                         value == (v.sustain_level * (EnvOne - progress))
                                     \div EnvOne
                     IN  IF progress >= EnvOne
                         THEN [v1 EXCEPT !.envelope_value = value,
                                         !.envelope_phase = "finished"]
                         ELSE [v1 EXCEPT !.envelope_value = value]
                ELSE [v1 EXCEPT !.envelope_phase = "finished"]
          [] OTHER -> v1

\* PolyphonicVoice.update_envelope: the voice after the update (the value
\* returned is its envelope_value).  progress is min(1.0, timer / time).
update_envelope(v, frames) ==
    LET t == Min(TimerCap, v.envelope_timer + BlockTime(frames))
        v1 == [v EXCEPT !.envelope_timer = t]
    IN  CASE v.envelope_phase = "attack" ->
                IF v.attack_time > 0
                THEN LET progress == Min(EnvOne, (t * EnvOne) \div v.attack_time)
                     IN  IF progress >= EnvOne
                         THEN [v1 EXCEPT !.envelope_value = progress,
                                         !.envelope_phase = "decay",
                                         !.envelope_timer = 0]
                         ELSE [v1 EXCEPT !.envelope_value = progress]
                ELSE [v1 EXCEPT !.envelope_value = EnvOne,
                                !.envelope_phase = "decay"]
          [] v.envelope_phase = "decay" ->
                IF v.decay_time > 0
                THEN LET progress == Min(EnvOne, (t * EnvOne) \div v.decay_time)
                         value == EnvOne - (progress * (EnvOne - v.sustain_level))
                                             \div EnvOne
                     IN  IF progress >= EnvOne
                         THEN [v1 EXCEPT !.envelope_value = value,
                                         !.envelope_phase = "sustain"]
                         ELSE [v1 EXCEPT !.envelope_value = value]
                ELSE [v1 EXCEPT !.envelope_value = v.sustain_level,
                                !.envelope_phase = "sustain"]
          [] v.envelope_phase = "sustain" ->
                [v1 EXCEPT !.envelope_value = v.sustain_level]
          [] v.envelope_phase = "release" ->
                IF v.release_time > 0
                THEN LET progress == Min(EnvOne, (t * EnvOne) \div v.release_time)
                         value == (v.sustain_level * (EnvOne - progress))
                                     \div EnvOne
                     IN  IF progress >= EnvOne
                         THEN [v1 EXCEPT !.envelope_value = value,
                                         !.envelope_phase = "finished"]
                         ELSE [v1 EXCEPT !.envelope_value = value]
                ELSE [v1 EXCEPT !.envelope_phase = "finished"]
          [] OTHER -> v1

\* Mutant of FilterApplies: the waveform is not looked at.
FilterApplies_any_waveform(wf, cutoff) == cutoff < 6000

\* The filter branch of generate is taken for Square and Sawtooth below 6000 Hz.
FilterApplies(wf, cutoff) == cutoff < 6000 /\ wf \in {1, 2}

\* Mutant of generate: rendering re-arms the voice, clearing its releasing
\* flag.
generate_rearm(v, frames, wf, cutoff, dtn) ==
    IF v.envelope_phase = "finished"
    THEN v
    ELSE LET v1 == [v EXCEPT !.phase = 1, !.releasing = FALSE]
             v2 == IF FilterApplies(wf, cutoff)
                   THEN [v1 EXCEPT !.filter_state = 1]
                   ELSE v1
         IN  update_envelope(v2, frames)

\* PolyphonicVoice.generate: the voice after rendering one block.  The
\* oscillator phase is 2*pi*frac(k*frames*f/sample_rate) after k blocks, which
\* is 0 only for k = 0 at the equal-tempered frequencies; the model keeps
\* whether it is still 0 (0) or has advanced (1), and likewise whether the
\* filter memory is still 0 or has been written by the recurrence.
generate(v, frames, wf, cutoff, dtn) ==
    IF v.envelope_phase = "finished"
    THEN v
    ELSE LET v1 == [v EXCEPT !.phase = 1]
             v2 == IF FilterApplies(wf, cutoff)
                   THEN [v1 EXCEPT !.filter_state = 1]
                   ELSE v1
         IN  update_envelope(v2, frames)

\* PolyphonicVoice.generate: the block returned.  Its samples are the
\* oscillator's ("raw") or the filter recurrence's output ("filtered"),
\* times the envelope value that update_envelope returns, times the
\* velocity; a finished voice returns zeros.  With the block goes the
\* envelope phase the call left the voice in.
generate_audio(v, frames, wf, cutoff, dtn) ==
    IF v.envelope_phase = "finished"
    THEN [source |-> "zeros", waveform |-> wf, filter_cutoff |-> cutoff,
          envelope |-> 0, velocity |-> v.velocity, envelope_phase |-> "finished"]
    ELSE [source |-> IF FilterApplies(wf, cutoff) THEN "filtered" ELSE "raw",
          waveform |-> wf, filter_cutoff |-> cutoff,
          envelope |-> update_envelope(v, frames).envelope_value,
          velocity |-> v.velocity,
          envelope_phase |-> update_envelope(v, frames).envelope_phase]

\* ------------------------------------------------------------ the pool
\* self.voices.keys()
Keys(pool) == {pool[i].note : i \in DOMAIN pool}

\* self.voices[note], for a note that is a key
Voice(pool, note) == pool[CHOOSE i \in DOMAIN pool : pool[i].note = note]

\* del self.voices[note], for a note that is a key
DictDel(pool, note) == SelectSeq(pool, LAMBDA v : v.note # note)

\* self.voices[note] = voice, for a note that is no key: a new last entry
DictInsert(pool, voice) == Append(pool, voice)

\* Mutant of MinKey: steals the largest note.
MinKey_largest(pool) == CHOOSE k \in Keys(pool) : \A j \in Keys(pool) : k >= j

\* min(self.voices.keys()), for a pool that is not empty
MinKey(pool) == CHOOSE k \in Keys(pool) : \A j \in Keys(pool) : k <= j

\* Mutant of PoolFull: the pool is taken to be full one voice too late.
PoolFull_late(pool) == Len(pool) > max_voices

\* note_on's test "len(self.voices) >= self.max_voices"
PoolFull(pool) == Len(pool) >= max_voices

\* FourPotMIDISynth.get_envelope_params: times in ms, sustain as a level
get_envelope_params(control) ==
    LET base_attack == 10
        base_decay == 100
        base_sustain == (7 * EnvOne) \div 10
        base_release == 300
        scale == EnvOne \div 10 + control * 4
    IN  [attack |-> (base_attack * scale) \div EnvOne,
         decay |-> (base_decay * scale) \div EnvOne,
         sustain |-> base_sustain,
         release |-> (base_release * scale) \div EnvOne]

\* Mutant of NoteOnPool: the polyphony limit is applied before the note's
\* old voice is removed.
NoteOnPool_limit_first(pool, note, velocity, params) ==
    LET p1 == IF PoolFull(pool) THEN DictDel(pool, MinKey(pool)) ELSE pool
        p2 == IF note \in Keys(p1) THEN DictDel(p1, note) ELSE p1
    IN  DictInsert(p2, PolyphonicVoice(note, velocity, params))

\* Mutant of NoteOnPool: a note that is already sounding keeps its voice.
NoteOnPool_keep(pool, note, velocity, params) ==
    IF note \in Keys(pool)
    THEN pool
    ELSE LET p2 == IF PoolFull(pool) THEN DictDel(pool, MinKey(pool)) ELSE pool
         IN  DictInsert(p2, PolyphonicVoice(note, velocity, params))

\* The pool after note_on(note, velocity) has run to its end.
NoteOnPool(pool, note, velocity, params) ==
    LET p1 == IF note \in Keys(pool) THEN DictDel(pool, note) ELSE pool
        p2 == IF PoolFull(p1) THEN DictDel(p1, MinKey(p1)) ELSE p1
    IN  DictInsert(p2, PolyphonicVoice(note, velocity, params))

\* Mutant of HasVoice: note_off does not look before it releases.
HasVoice_always(pool, note) == TRUE

\* "note in self.voices"
HasVoice(pool, note) == note \in Keys(pool)

\* The pool after note_off(note) has run to its end.
NoteOffPool(pool, note) ==
    IF HasVoice(pool, note)
    THEN [i \in DOMAIN pool |->
            IF pool[i].note = note THEN release(pool[i]) ELSE pool[i]]
    ELSE pool

\* Mutant of FinishedNotes: a voice is collected as soon as it is released.
FinishedNotes_released(pool) ==
    LET fin == SelectSeq(pool, LAMBDA v : v.releasing)
    IN  [i \in DOMAIN fin |-> fin[i].note]

\* audio_callback's loop over self.voices.items(), run to its end: the notes
\* it collects in voices_to_remove, and the pool after the loop.
FinishedNotes(pool) ==
    LET fin == SelectSeq(pool, is_finished)
    IN  [i \in DOMAIN fin |-> fin[i].note]

RenderedPool(pool, frames, wf, cutoff, dtn) ==
    [i \in DOMAIN pool |->
        IF is_finished(pool[i]) THEN pool[i]
        ELSE generate(pool[i], frames, wf, cutoff, dtn)]

\* The notes whose voices the loop calls generate() on: its else branch.
GeneratedNotes(pool) ==
    {pool[i].note : i \in {j \in DOMAIN pool : ~is_finished(pool[j])}}

\* Mutant of PrunedPool: the removal loop is skipped.
PrunedPool_none(pool, remove) == pool

\* "for note in voices_to_remove: del self.voices[note]", run to its end
PrunedPool(pool, remove) ==
    LET gone == {remove[i] : i \in DOMAIN remove}
    IN  SelectSeq(pool, LAMBDA v : v.note \notin gone)

\* ------------------------------------------------------------- Init
\* The constructor leaves waveform = 0 and envelope_control = 0.5.  start()
\* runs the pot-polling thread before any MIDI or audio callback arrives, so
\* the handlers find whatever the last poll wrote: the model starts them
\* from either setting of the two parameters they depend on.  Init is the
\* synth as start() has set it going: port open, pot thread polling, stream
\* active, the main thread in its status loop (SpecLifecycle starts from the
\* constructor instead).
InitWaveforms == {0, 1}
InitEnvelopeControls == {EnvOne \div 2, 0}

Init ==
    /\ voices = <<>>
    /\ master_volume = EnvOne \div 2
    /\ waveform \in InitWaveforms
    /\ filter_cutoff = 1000
    /\ envelope_control \in InitEnvelopeControls
    /\ detune = 0
    /\ variant = "FourPot"
    /\ attack_time = 0 /\ decay_time = 0 /\ sustain_level = 0 /\ release_time = 0
    /\ message = <<>>
    /\ delivered = 0
    /\ generated = NoAudio
    /\ outdata = <<"stale", "stale">>
    /\ a_pc = "idle"
    /\ voices_to_remove = <<>>
    /\ a_iter = NoIter
    /\ a_del = 0
    /\ a_args = {}
    /\ pot_running = TRUE
    /\ pot_pc = "sleep"
    /\ pot_raw = <<>>
    /\ main_pc = "loop"
    /\ running = TRUE
    /\ stream = "active"
    /\ midiin = "open"
    /\ a_exc = "none"
    /\ m_pc = "idle"
    /\ m_op = "none"
    /\ m_note = NoNote
    /\ m_velocity = 0
    /\ envelope_params = NoParams
    /\ oldest_note = NoNote
    /\ m_retrig = FALSE
    /\ m_exc = "none"

\* ------------------------------------------- handlers run to completion
\* midi_callback delivering a Note On: note_on(note, velocity)
NoteOn(note, velocity) ==
    LET params == get_envelope_params(envelope_control)
        retrig == note \in Keys(voices)
        p1 == IF retrig THEN DictDel(voices, note) ELSE voices
    IN  /\ a_pc = "idle" /\ m_pc = "idle"
        /\ voices' = NoteOnPool(voices, note, velocity, params)
        /\ m_op' = "note_on"
        /\ m_note' = note
        /\ m_velocity' = velocity
        /\ envelope_params' = params
        /\ m_retrig' = retrig
        /\ oldest_note' = IF PoolFull(p1) THEN MinKey(p1) ELSE NoNote
        /\ m_exc' = "none"
        /\ UNCHANGED <<m_pc, synth_vars, outdata, audio_vars>>

\* midi_callback delivering a Note Off: note_off(note)
NoteOff(note) ==
    /\ a_pc = "idle" /\ m_pc = "idle"
    /\ voices' = NoteOffPool(voices, note)
    /\ m_op' = "note_off"
    /\ m_note' = note
    /\ m_velocity' = 0
    /\ m_retrig' = FALSE
    /\ oldest_note' = NoNote
    /\ m_exc' = "none"
    /\ UNCHANGED <<m_pc, envelope_params, synth_vars, outdata, audio_vars>>

\* audio_callback(outdata, frames, time, status) with frames = blocksize:
\* nothing in the try block raises when no other thread runs meanwhile.
AudioCallback ==
    /\ a_pc = "idle" /\ m_pc = "idle"
    /\ voices_to_remove' = FinishedNotes(voices)
    /\ voices' = PrunedPool(RenderedPool(voices, blocksize, waveform,
                                         filter_cutoff, detune),
                            FinishedNotes(voices))
    /\ outdata' = <<"audio", "audio">>
    /\ a_exc' = "none"
    /\ UNCHANGED <<a_pc, a_iter, a_del, a_args, synth_vars, midi_vars>>

Next ==
    \/ \E note \in Notes, velocity \in Velocities : NoteOn(note, velocity)
    \/ \E note \in Notes : NoteOff(note)
    \/ AudioCallback

Spec == Init /\ [][Next]_vars

\* ------------------------------------- the audio sink keeps calling back
\* The scenario "note_on, then note_off, then rendering": once a note's
\* voice is in Release or Finished the keyboard sends nothing more for that
\* note (other notes go on playing, and may steal the voice).  The sink
\* calls audio_callback once per block for as long as the stream is open.
Releasing(note) ==
    /\ note \in Keys(voices)
    /\ Voice(voices, note).envelope_phase \in {"release", "finished"}

NextLive ==
    \/ \E note \in Notes, velocity \in Velocities :
          ~Releasing(note) /\ NoteOn(note, velocity)
    \/ \E note \in Notes : ~Releasing(note) /\ NoteOff(note)
    \/ AudioCallback

SpecLive == Init /\ [][NextLive]_vars /\ WF_vars(AudioCallback)

\* ------------------------------------------- one voice, driven directly
\* ADSR settings handed to PolyphonicVoice.__init__ (ms).
AttackTimes == {0, 300, 600}
DecayTimes == {0, 300, 600}
SustainLevels == {0, (2 * EnvOne) \div 5, (7 * EnvOne) \div 10, EnvOne}
ReleaseTimes == {0, 200, 300, 600}
\* The frames argument of generate(): half a block of the synthesizer, so
\* that dt is 200 ms and the longest phase takes three updates.
VoiceFrames == blocksize \div 2
\* The waveform and cutoff arguments of generate().
VoiceWaveforms == 0..3
VoiceCutoffs == {1000, 6000, 8000}
VoiceParams ==
    [attack : AttackTimes, decay : DecayTimes,
     sustain : SustainLevels, release : ReleaseTimes]

InitVoice ==
    /\ \E params \in VoiceParams :
          voices = <<PolyphonicVoice(60, 100, params)>>
    /\ master_volume = EnvOne \div 2
    /\ waveform = 0
    /\ filter_cutoff = 1000
    /\ envelope_control = EnvOne \div 2
    /\ detune = 0
    /\ variant = "FourPot"
    /\ attack_time = 0 /\ decay_time = 0 /\ sustain_level = 0 /\ release_time = 0
    /\ message = <<>>
    /\ delivered = 0
    /\ generated = NoAudio
    /\ outdata = <<"stale", "stale">>
    /\ a_pc = "idle"
    /\ voices_to_remove = <<>>
    /\ a_iter = NoIter
    /\ a_del = 0
    /\ a_args = {}
    /\ pot_running = TRUE
    /\ pot_pc = "sleep"
    /\ pot_raw = <<>>
    /\ main_pc = "loop"
    /\ running = TRUE
    /\ stream = "active"
    /\ midiin = "open"
    /\ a_exc = "none"
    /\ m_pc = "idle"
    /\ m_op = "none"
    /\ m_note = NoNote
    /\ m_velocity = 0
    /\ envelope_params = NoParams
    /\ oldest_note = NoNote
    /\ m_retrig = FALSE
    /\ m_exc = "none"

\* voice.generate(frames, waveform, filter_cutoff, detune) on the one voice
VoiceGenerate ==
    /\ \E wf \in VoiceWaveforms, cutoff \in VoiceCutoffs :
          /\ voices' = <<generate(voices[1], VoiceFrames, wf, cutoff, detune)>>
          /\ generated' = generate_audio(voices[1], VoiceFrames, wf, cutoff, detune)
    /\ m_op' = "generate"
    /\ UNCHANGED <<param_vars, variant, message, delivered, pot_vars, life_vars,
                   outdata, audio_vars, m_pc, m_note, m_velocity,
                   envelope_params, oldest_note, m_retrig, m_exc>>

\* voice.release() on the one voice
VoiceRelease ==
    /\ voices' = <<release(voices[1])>>
    /\ m_op' = "release"
    /\ UNCHANGED <<synth_vars, outdata, audio_vars, m_pc, m_note, m_velocity,
                   envelope_params, oldest_note, m_retrig, m_exc>>

NextVoice == VoiceGenerate \/ VoiceRelease

SpecVoice == InitVoice /\ [][NextVoice]_vars

\* ----------------------------------------------- the two callback threads
\* rtmidi runs midi_callback on its own thread, one message at a time, and
\* PortAudio runs audio_callback on another; the code takes no lock, so the
\* threads interleave between any two operations on self.voices.  A voice's
\* own methods (is_finished, generate, release) are taken as single steps.
\*
\* The dict iterator of "for note, voice in self.voices.items()": pos is the
\* number of entries behind it, used the dict's size when the loop began and
\* len the number of entries it still expects.  Asked for the next entry it
\* raises RuntimeError when the dict's size differs from used, stops at the
\* end of the entries, and raises RuntimeError when it finds an entry with
\* len = 0.
IndexOf(pool, note) == CHOOSE i \in DOMAIN pool : pool[i].note = note

\* "except Exception" of audio_callback: the exceptions the block can raise
\* are RuntimeError (dict changed size during iteration) and KeyError (del of
\* a missing key).  Mutant of Caught: a handler for KeyError alone.
Caught_KeyErrorOnly(exc) == exc = "KeyError"

Caught(exc) == exc \in {"RuntimeError", "KeyError", "ValueError"}

\* An exception raised inside audio_callback's try block: the handler zeroes
\* the buffer and the callback returns; an exception that no handler takes
\* leaves the callback through its caller.
audio_callback_raise(exc) ==
    /\ a_exc' = exc
    /\ IF Caught(exc)
       THEN a_pc' = "idle" /\ outdata' = <<"zero", "zero">>
       ELSE a_pc' = "propagated" /\ UNCHANGED outdata

\* audio_callback up to the creation of the iterator
audio_callback_begin ==
    /\ a_pc = "idle"
    /\ a_pc' = "loop"
    /\ voices_to_remove' = <<>>
    /\ a_iter' = [pos |-> 0, len |-> Len(voices), used |-> Len(voices)]
    /\ a_del' = 0
    /\ a_exc' = "none"
    /\ a_args' = {}
    /\ UNCHANGED <<voices, synth_vars, outdata, midi_vars>>

\* one round of the loop: the iterator's next entry and the loop body on it
audio_callback_loop ==
    /\ a_pc = "loop"
    /\ IF a_iter.used # Len(voices) \/ (a_iter.pos < Len(voices) /\ a_iter.len = 0)
       THEN /\ audio_callback_raise("RuntimeError")
            /\ UNCHANGED <<voices, voices_to_remove, a_iter, a_args>>
       ELSE IF a_iter.pos >= Len(voices)
       THEN /\ a_pc' = "prune"
            /\ UNCHANGED <<voices, voices_to_remove, a_iter, a_exc, a_args, outdata>>
       ELSE LET i == a_iter.pos + 1
            IN  /\ a_iter' = [a_iter EXCEPT !.pos = i, !.len = @ - 1]
                /\ IF is_finished(voices[i])
                   THEN /\ voices_to_remove' = Append(voices_to_remove, voices[i].note)
                        /\ UNCHANGED <<voices, a_args>>
                   ELSE /\ voices' = [voices EXCEPT ![i] =
                                        generate(voices[i], blocksize, waveform,
                                                 filter_cutoff, detune)]
                        /\ a_args' = a_args \cup {<<waveform, filter_cutoff, detune>>}
                        /\ UNCHANGED voices_to_remove
                /\ UNCHANGED <<a_pc, a_exc, outdata>>
    /\ UNCHANGED <<a_del, synth_vars, midi_vars>>

\* Mutant of audio_callback_prune: the deletions are made under a lock that
\* the MIDI thread holds for the whole of a callback.
audio_callback_prune_locked ==
    /\ a_pc = "prune"
    /\ m_pc = "idle"
    /\ IF a_del >= Len(voices_to_remove)
       THEN /\ a_pc' = "idle"
            /\ outdata' = <<"audio", "audio">>
            /\ UNCHANGED <<voices, a_del, a_exc>>
       ELSE IF voices_to_remove[a_del + 1] \in Keys(voices)
       THEN /\ voices' = DictDel(voices, voices_to_remove[a_del + 1])
            /\ a_del' = a_del + 1
            /\ UNCHANGED <<a_pc, a_exc, outdata>>
       ELSE /\ audio_callback_raise("KeyError")
            /\ UNCHANGED <<voices, a_del>>
    /\ UNCHANGED <<voices_to_remove, a_iter, a_args, synth_vars, midi_vars>>

\* one round of "for note in voices_to_remove: del self.voices[note]"; after
\* the last one the block is scaled, limited and written to both channels
audio_callback_prune ==
    /\ a_pc = "prune"
    /\ IF a_del >= Len(voices_to_remove)
       THEN /\ a_pc' = "idle"
            /\ outdata' = <<"audio", "audio">>
            /\ UNCHANGED <<voices, a_del, a_exc>>
       ELSE IF voices_to_remove[a_del + 1] \in Keys(voices)
       THEN /\ voices' = DictDel(voices, voices_to_remove[a_del + 1])
            /\ a_del' = a_del + 1
            /\ UNCHANGED <<a_pc, a_exc, outdata>>
       ELSE /\ audio_callback_raise("KeyError")
            /\ UNCHANGED <<voices, a_del>>
    /\ UNCHANGED <<voices_to_remove, a_iter, a_args, synth_vars, midi_vars>>

AudioNext == audio_callback_begin \/ audio_callback_loop \/ audio_callback_prune

\* An exception raised inside midi_callback's try block is printed by its
\* handler and the callback returns.
midi_callback_raise(exc) ==
    /\ m_exc' = exc
    /\ m_pc' = "idle"

\* "del self.voices[note]" on the MIDI thread while the audio thread may be
\* inside its loop.  Deleting an entry behind the iterator leaves a dead slot
\* there; the following insert either appends after the last slot (the
\* iterator then still has the same entries before it: pos - 1 of the live
\* ones) or first repacks the table (the iterator's slot number, pos, then
\* counts live entries only).  Which one happens depends on the free slots
\* left in the table.
midi_del(note) ==
    /\ voices' = DictDel(voices, note)
    /\ IF a_pc = "loop" /\ IndexOf(voices, note) <= a_iter.pos
       THEN \E p \in {a_iter.pos - 1, a_iter.pos} :
               a_iter' = [a_iter EXCEPT !.pos = p]
       ELSE UNCHANGED a_iter

\* midi_callback delivering a Note On: note_on up to "if note in self.voices"
note_on_begin(note, velocity) ==
    /\ m_pc = "idle"
    /\ m_op' = "note_on"
    /\ m_note' = note
    /\ m_velocity' = velocity
    /\ envelope_params' = get_envelope_params(envelope_control)
    /\ m_retrig' = (note \in Keys(voices))
    /\ oldest_note' = NoNote
    /\ m_exc' = "none"
    /\ m_pc' = IF note \in Keys(voices) THEN "on_del" ELSE "on_len"
    /\ UNCHANGED <<voices, synth_vars, outdata, audio_vars>>

\* "del self.voices[note]" of the retrigger
note_on_del ==
    /\ m_pc = "on_del"
    /\ IF m_note \in Keys(voices)
       THEN /\ midi_del(m_note)
            /\ m_pc' = "on_len"
            /\ UNCHANGED m_exc
       ELSE /\ midi_callback_raise("KeyError")
            /\ UNCHANGED <<voices, a_iter>>
    /\ UNCHANGED <<m_op, m_note, m_velocity, envelope_params, oldest_note, m_retrig,
                   synth_vars, outdata, a_pc, voices_to_remove, a_del, a_exc, a_args>>

\* "if len(self.voices) >= self.max_voices"
note_on_len ==
    /\ m_pc = "on_len"
    /\ m_pc' = IF PoolFull(voices) THEN "on_min" ELSE "on_insert"
    /\ UNCHANGED <<voices, m_op, m_note, m_velocity, envelope_params, oldest_note,
                   m_retrig, m_exc, synth_vars, outdata, audio_vars>>

\* "oldest_note = min(self.voices.keys())"
note_on_min ==
    /\ m_pc = "on_min"
    /\ IF voices # <<>>
       THEN /\ oldest_note' = MinKey(voices)
            /\ m_pc' = "on_evict"
            /\ UNCHANGED m_exc
       ELSE /\ midi_callback_raise("ValueError")
            /\ UNCHANGED oldest_note
    /\ UNCHANGED <<voices, m_op, m_note, m_velocity, envelope_params, m_retrig,
                   synth_vars, outdata, audio_vars>>

\* "del self.voices[oldest_note]"
note_on_evict ==
    /\ m_pc = "on_evict"
    /\ IF oldest_note \in Keys(voices)
       THEN /\ midi_del(oldest_note)
            /\ m_pc' = "on_insert"
            /\ UNCHANGED m_exc
       ELSE /\ midi_callback_raise("KeyError")
            /\ UNCHANGED <<voices, a_iter>>
    /\ UNCHANGED <<m_op, m_note, m_velocity, envelope_params, oldest_note, m_retrig,
                   synth_vars, outdata, a_pc, voices_to_remove, a_del, a_exc, a_args>>

\* "self.voices[note] = PolyphonicVoice(...)"
note_on_insert ==
    /\ m_pc = "on_insert"
    /\ voices' = DictInsert(voices, PolyphonicVoice(m_note, m_velocity, envelope_params))
    /\ m_pc' = "idle"
    /\ UNCHANGED <<m_op, m_note, m_velocity, envelope_params, oldest_note, m_retrig,
                   m_exc, synth_vars, outdata, audio_vars>>

\* midi_callback delivering a Note Off: note_off's "if note in self.voices"
note_off_begin(note) ==
    /\ m_pc = "idle"
    /\ m_op' = "note_off"
    /\ m_note' = note
    /\ m_velocity' = 0
    /\ m_retrig' = FALSE
    /\ oldest_note' = NoNote
    /\ m_exc' = "none"
    /\ m_pc' = IF HasVoice(voices, note) THEN "off_release" ELSE "idle"
    /\ UNCHANGED <<voices, envelope_params, synth_vars, outdata, audio_vars>>

\* "self.voices[note].release()"
note_off_release ==
    /\ m_pc = "off_release"
    /\ IF m_note \in Keys(voices)
       THEN /\ voices' = NoteOffPool(voices, m_note)
            /\ m_pc' = "idle"
            /\ UNCHANGED m_exc
       ELSE /\ midi_callback_raise("KeyError")
            /\ UNCHANGED voices
    /\ UNCHANGED <<m_op, m_note, m_velocity, envelope_params, oldest_note, m_retrig,
                   synth_vars, outdata, audio_vars>>

MidiNext ==
    \/ \E note \in Notes, velocity \in Velocities : note_on_begin(note, velocity)
    \/ note_on_del
    \/ note_on_len
    \/ note_on_min
    \/ note_on_evict
    \/ note_on_insert
    \/ \E note \in Notes : note_off_begin(note)
    \/ note_off_release

NextThreads == AudioNext \/ MidiNext

\* The threads start from the state the constructor leaves.
InitThreads ==
    /\ Init
    /\ waveform = 0
    /\ envelope_control = EnvOne \div 2

SpecThreads == InitThreads /\ [][NextThreads]_vars

\* ------------------------------------------------------- the parameters
\* A normalized control value is kept as the exact fraction <<num, den>>,
\* den > 0, and compared by cross-multiplication.  What is stored from it is a
\* level in units of 1/EnvOne, a time in ms or a frequency in Hz, rounded
\* down to the unit; detune is kept in units of 1/MidiMax cent, in which both
\* classes' formulas are exact.
MidiMax == 127

\* The synth's parameter fields as one record.
Params ==
    [master_volume |-> master_volume, waveform |-> waveform,
     filter_cutoff |-> filter_cutoff, envelope_control |-> envelope_control,
     detune |-> detune, attack_time |-> attack_time, decay_time |-> decay_time,
     sustain_level |-> sustain_level, release_time |-> release_time]

\* The fields hold the values of record P.
ParamsAre(P) ==
    /\ master_volume = P.master_volume
    /\ waveform = P.waveform
    /\ filter_cutoff = P.filter_cutoff
    /\ envelope_control = P.envelope_control
    /\ detune = P.detune
    /\ attack_time = P.attack_time
    /\ decay_time = P.decay_time
    /\ sustain_level = P.sustain_level
    /\ release_time = P.release_time

\* The fields take the values of record P.
SetParams(P) ==
    /\ master_volume' = P.master_volume
    /\ waveform' = P.waveform
    /\ filter_cutoff' = P.filter_cutoff
    /\ envelope_control' = P.envelope_control
    /\ detune' = P.detune
    /\ attack_time' = P.attack_time
    /\ decay_time' = P.decay_time
    /\ sustain_level' = P.sustain_level
    /\ release_time' = P.release_time

\* max(0, min(1, x))
Clamp01(x) ==
    IF x[1] < 0 THEN <<0, x[2]>>
    ELSE IF x[1] > x[2] THEN <<x[2], x[2]>>
    ELSE x

\* Mutant of WaveformOf: the first band ends at 0.26.
WaveformOf_shifted(x) ==
    IF 100 * x[1] < 26 * x[2] THEN 0
    ELSE IF 2 * x[1] < x[2] THEN 1
    ELSE IF 4 * x[1] < 3 * x[2] THEN 2
    ELSE 3

\* The waveform chain "if x < 0.25 ... elif x < 0.5 ... elif x < 0.75 ... else"
WaveformOf(x) ==
    IF 4 * x[1] < x[2] THEN 0
    ELSE IF 2 * x[1] < x[2] THEN 1
    ELSE IF 4 * x[1] < 3 * x[2] THEN 2
    ELSE 3

\* One round of FourPotMIDISynth.read_potentiometers_thread in which the
\* four reads succeed: the raw readings, calibrated, clamped and stored.
read_potentiometers(P, vol_raw, wave_raw, filter_raw, env_raw) ==
    LET vol_norm == Clamp01(<<vol_raw - 3, 26335 - 3>>)
        wave_norm == Clamp01(<<wave_raw - 4, 26333 - 4>>)
        filter_norm == Clamp01(<<filter_raw - 15, 26323 - 15>>)
        env_norm == Clamp01(<<env_raw - 15, 26320 - 15>>)
    IN  [P EXCEPT
           !.master_volume = (8 * EnvOne * vol_norm[1]) \div (10 * vol_norm[2]),
           !.waveform = WaveformOf(wave_norm),
           !.filter_cutoff = 200 + (7800 * filter_norm[1]) \div filter_norm[2],
           !.envelope_control = (EnvOne * env_norm[1]) \div env_norm[2]]

\* Mutant of handle_cc: knob 1 scaled as MPKOnlySynth scales its detune knob.
handle_cc_normalized(P, controller, value) ==
    IF controller = 70
    THEN [P EXCEPT !.detune = 200 * value - 100 * MidiMax]
    ELSE P

\* FourPotMIDISynth.handle_cc
handle_cc(P, controller, value) ==
    IF controller = 70
    THEN [P EXCEPT !.detune = (value - 64) * 2 * MidiMax]
    ELSE P

\* Mutant of handle_knob: knob 1 adds to the volume instead of setting it.
handle_knob_relative(P, controller, value) ==
    IF controller = 70
    THEN [P EXCEPT !.master_volume = @ + (8 * EnvOne * value) \div (10 * MidiMax)]
    ELSE P

\* MPKOnlySynth.handle_knob; norm_value is value / 127.0
handle_knob(P, controller, value) ==
    LET norm_value == <<value, MidiMax>>
    IN  CASE controller = 70 ->
               [P EXCEPT !.master_volume = (8 * EnvOne * value) \div (10 * MidiMax)]
          [] controller = 71 ->
               [P EXCEPT !.waveform = WaveformOf(norm_value)]
          [] controller = 72 ->
               [P EXCEPT !.filter_cutoff = 200 + (7800 * value) \div MidiMax]
          [] controller = 73 ->
               [P EXCEPT !.attack_time = 1 + (2000 * value) \div MidiMax]
          [] controller = 74 ->
               [P EXCEPT !.decay_time = 10 + (2000 * value) \div MidiMax]
          [] controller = 75 ->
               [P EXCEPT !.sustain_level = (EnvOne * value) \div MidiMax]
          [] controller = 76 ->
               [P EXCEPT !.release_time = 10 + (4000 * value) \div MidiMax]
          [] controller = 77 ->
               [P EXCEPT !.detune = 200 * value - 100 * MidiMax]
          [] OTHER -> P

\* Mutant of get_synth_params: the constructor's settings, not the current ones.
get_synth_params_defaults(P) ==
    [attack |-> 10, decay |-> 100, sustain |-> (7 * EnvOne) \div 10, release |-> 300]

\* MPKOnlySynth.get_synth_params
get_synth_params(P) ==
    [attack |-> P.attack_time, decay |-> P.decay_time,
     sustain |-> P.sustain_level, release |-> P.release_time]

\* The envelope settings note_on hands to the new voice, in either class.
NoteOnParams(P) ==
    IF variant = "MPK" THEN get_synth_params(P)
    ELSE get_envelope_params(P.envelope_control)

\* MPKOnlySynth.__init__: the parameter fields
MPKDefaults ==
    [master_volume |-> EnvOne \div 2, waveform |-> 0, filter_cutoff |-> 1000,
     envelope_control |-> 0, detune |-> 0,
     attack_time |-> 10, decay_time |-> 100,
     sustain_level |-> (7 * EnvOne) \div 10, release_time |-> 300]

\* FourPotMIDISynth.__init__: the parameter fields
FourPotDefaults ==
    [master_volume |-> EnvOne \div 2, waveform |-> 0, filter_cutoff |-> 1000,
     envelope_control |-> EnvOne \div 2, detune |-> 0,
     attack_time |-> 0, decay_time |-> 0, sustain_level |-> 0, release_time |-> 0]

\* ------------------------------------- notes and parameter writes mixed
\* The handlers run to completion, as in Spec, with the parameter writers
\* beside them: handle_knob (MPKOnlySynth), handle_cc and one round of the
\* pot-polling loop (FourPotMIDISynth).
ControlNotes == {60, 64}
ControlKnobs == {73, 75, 76}
ControlValues == {25}
ControlReadings == {15, 13167}

InitControl ==
    /\ variant \in {"FourPot", "MPK"}
    /\ ParamsAre(IF variant = "MPK" THEN MPKDefaults ELSE FourPotDefaults)
    /\ voices = <<>>
    /\ message = <<>>
    /\ delivered = 0
    /\ generated = NoAudio
    /\ outdata = <<"stale", "stale">>
    /\ a_pc = "idle"
    /\ voices_to_remove = <<>>
    /\ a_iter = NoIter
    /\ a_del = 0
    /\ a_args = {}
    /\ pot_running = (variant = "FourPot")
    /\ pot_pc = IF variant = "FourPot" THEN "sleep" ELSE "none"
    /\ pot_raw = <<>>
    /\ main_pc = "loop"
    /\ running = TRUE
    /\ stream = "active"
    /\ midiin = "open"
    /\ a_exc = "none"
    /\ m_pc = "idle"
    /\ m_op = "none"
    /\ m_note = NoNote
    /\ m_velocity = 0
    /\ envelope_params = NoParams
    /\ oldest_note = NoNote
    /\ m_retrig = FALSE
    /\ m_exc = "none"

\* note_on(note, velocity) of either class
ControlNoteOn(note, velocity) ==
    LET params == NoteOnParams(Params)
        retrig == note \in Keys(voices)
        p1 == IF retrig THEN DictDel(voices, note) ELSE voices
    IN  /\ a_pc = "idle" /\ m_pc = "idle"
        /\ voices' = NoteOnPool(voices, note, velocity, params)
        /\ m_op' = "note_on"
        /\ m_note' = note
        /\ m_velocity' = velocity
        /\ envelope_params' = params
        /\ m_retrig' = retrig
        /\ oldest_note' = IF PoolFull(p1) THEN MinKey(p1) ELSE NoNote
        /\ m_exc' = "none"
        /\ UNCHANGED <<m_pc, synth_vars, outdata, audio_vars>>

\* midi_callback delivering a Control Change to MPKOnlySynth
HandleKnob(controller, value) ==
    /\ variant = "MPK"
    /\ a_pc = "idle" /\ m_pc = "idle"
    /\ SetParams(handle_knob(Params, controller, value))
    /\ m_op' = "control_change"
    /\ m_note' = NoNote
    /\ m_velocity' = 0
    /\ UNCHANGED <<voices, variant, message, delivered, generated, pot_vars, life_vars, outdata, audio_vars, m_pc,
                   envelope_params, oldest_note, m_retrig, m_exc>>

\* midi_callback delivering a Control Change to FourPotMIDISynth
HandleCC(controller, value) ==
    /\ variant = "FourPot"
    /\ a_pc = "idle" /\ m_pc = "idle"
    /\ SetParams(handle_cc(Params, controller, value))
    /\ m_op' = "control_change"
    /\ m_note' = NoNote
    /\ m_velocity' = 0
    /\ UNCHANGED <<voices, variant, message, delivered, generated, pot_vars, life_vars, outdata, audio_vars, m_pc,
                   envelope_params, oldest_note, m_retrig, m_exc>>

\* One round of the pot-polling loop, between two handlers
PotUpdate(vol_raw, wave_raw, filter_raw, env_raw) ==
    /\ variant = "FourPot"
    /\ a_pc = "idle" /\ m_pc = "idle"
    /\ SetParams(read_potentiometers(Params, vol_raw, wave_raw, filter_raw, env_raw))
    /\ UNCHANGED <<voices, variant, message, delivered, generated, pot_vars, life_vars, outdata, audio_vars, midi_vars>>

NextControl ==
    \/ \E note \in ControlNotes, velocity \in Velocities : ControlNoteOn(note, velocity)
    \/ \E note \in ControlNotes : NoteOff(note)
    \/ AudioCallback
    \/ \E controller \in ControlKnobs, value \in ControlValues :
          HandleKnob(controller, value)
    \/ \E value \in ControlValues : HandleCC(70, value)
    \/ \E env_raw \in ControlReadings : PotUpdate(13167, 15, 15, env_raw)

SpecControl == InitControl /\ [][NextControl]_vars

\* ------------------------------------------------ the output stage
\* audio_callback after its loops: "audio *= self.master_volume", then
\* "audio = np.tanh(audio * 0.7) * 1.2".  Amplitudes are in units of
\* 1/EnvOne.  np.tanh is taken at the points of TanhKnots (argument, value)
\* and along the chords between them; from the last knot on it has reached
\* 1.0, as it does in float32.
TanhKnots ==
    << <<0, 0>>, <<EnvOne \div 2, 291>>, <<EnvOne, 480>>, <<(3 * EnvOne) \div 2, 570>>,
       <<2 * EnvOne, 607>>, <<3 * EnvOne, 627>>, <<4 * EnvOne, 629>>,
       <<9 * EnvOne, EnvOne>> >>

Tanh(y) ==
    LET a == IF y < 0 THEN 0 - y ELSE y
        n == Len(TanhKnots)
        t == IF a >= TanhKnots[n][1] THEN TanhKnots[n][2]
             ELSE LET i == CHOOSE k \in 1..(n - 1) :
                              TanhKnots[k][1] <= a /\ a < TanhKnots[k + 1][1]
                      lo == TanhKnots[i]
                      hi == TanhKnots[i + 1]
                  IN  lo[2] + ((a - lo[1]) * (hi[2] - lo[2])) \div (hi[1] - lo[1])
    IN  IF y < 0 THEN 0 - t ELSE t

\* Mutant of SoftLimit: the gains without the tanh.
SoftLimit_linear(x) == (12 * ((7 * x) \div 10)) \div 10

\* "np.tanh(audio * 0.7) * 1.2" on one sample
SoftLimit(x) == (12 * Tanh((7 * x) \div 10)) \div 10

\* The largest magnitude a sample of the mix can have before the volume is
\* applied: each voice that is rendered contributes a sample of magnitude at
\* most 1 (a square wave's samples all have magnitude 1) times the envelope
\* value of this block times its velocity; the sum is reached when the
\* voices' samples agree in sign.
RECURSIVE MixPeak(_)
MixPeak(pool) ==
    IF pool = <<>> THEN 0
    ELSE LET v == Head(pool)
             own == IF is_finished(v) THEN 0
                    ELSE (update_envelope(v, blocksize).envelope_value * v.velocity[1])
                            \div v.velocity[2]
         IN  own + MixPeak(Tail(pool))

\* The largest magnitude of a sample that audio_callback, called in this
\* state, writes to outdata.
OutputPeak == SoftLimit((master_volume * MixPeak(voices)) \div EnvOne)

\* MPKOnlySynth played at full velocity, knob 1 turned from 0 to the top and
\* to two bytes above the data range.
MixVelocities == {127}
MixVolumes == {0, 127, 128, 255}

NextMix ==
    \/ \E note \in ControlNotes, velocity \in MixVelocities : ControlNoteOn(note, velocity)
    \/ \E note \in ControlNotes : NoteOff(note)
    \/ AudioCallback
    \/ \E value \in MixVolumes : HandleKnob(70, value)

InitMix == InitControl /\ variant = "MPK"

SpecMix == InitMix /\ [][NextMix]_vars

\* --------------------------------------------- the pot-polling thread
\* FourPotMIDISynth.read_potentiometers_thread, one step per statement that
\* another thread can tell apart: the loop test, the four reads (a read of
\* the converter may take any time, or raise), the four stores, the sleep.
\* The parts of vars the pot thread never writes:
pot_frame == <<voices, variant, message, delivered, generated, life_vars, outdata, audio_vars, midi_vars>>

\* Mutant of pot_test: the loop does not look at the flag.
pot_test_forever ==
    /\ pot_pc \in {"started", "sleep", "error"}
    /\ pot_pc' = "read"
    /\ UNCHANGED <<pot_running, pot_raw, param_vars, pot_frame>>

\* "while self.pot_running", also after either sleep
pot_test ==
    /\ pot_pc \in {"started", "sleep", "error"}
    /\ pot_pc' = IF pot_running THEN "read" ELSE "done"
    /\ UNCHANGED <<pot_running, pot_raw, param_vars, pot_frame>>

\* the four ".value" reads succeed
pot_read(vol_raw, wave_raw, filter_raw, env_raw) ==
    /\ pot_pc = "read"
    /\ pot_raw' = <<vol_raw, wave_raw, filter_raw, env_raw>>
    /\ pot_pc' = "volume"
    /\ UNCHANGED <<pot_running, param_vars, pot_frame>>

\* a read raises: "except Exception", print, time.sleep(0.1)
pot_read_error ==
    /\ pot_pc = "read"
    /\ pot_pc' = "error"
    /\ UNCHANGED <<pot_running, pot_raw, param_vars, pot_frame>>

\* what the round stores, from the readings the thread holds
pot_values == read_potentiometers(Params, pot_raw[1], pot_raw[2], pot_raw[3], pot_raw[4])

\* "self.master_volume = vol_norm * 0.8"
pot_volume ==
    /\ pot_pc = "volume"
    /\ master_volume' = pot_values.master_volume
    /\ pot_pc' = "wave"
    /\ UNCHANGED <<waveform, filter_cutoff, envelope_control, detune, attack_time,
                   decay_time, sustain_level, release_time,
                   pot_running, pot_raw, pot_frame>>

\* "self.waveform = ..."
pot_wave ==
    /\ pot_pc = "wave"
    /\ waveform' = pot_values.waveform
    /\ pot_pc' = "filter"
    /\ UNCHANGED <<master_volume, filter_cutoff, envelope_control, detune, attack_time,
                   decay_time, sustain_level, release_time,
                   pot_running, pot_raw, pot_frame>>

\* "self.filter_cutoff = 200 + filter_norm * 7800"
pot_filter ==
    /\ pot_pc = "filter"
    /\ filter_cutoff' = pot_values.filter_cutoff
    /\ pot_pc' = "envelope"
    /\ UNCHANGED <<master_volume, waveform, envelope_control, detune, attack_time,
                   decay_time, sustain_level, release_time,
                   pot_running, pot_raw, pot_frame>>

\* "self.envelope_control = env_norm", then time.sleep(0.05)
pot_envelope ==
    /\ pot_pc = "envelope"
    /\ envelope_control' = pot_values.envelope_control
    /\ pot_pc' = "sleep"
    /\ UNCHANGED <<master_volume, waveform, filter_cutoff, detune, attack_time,
                   decay_time, sustain_level, release_time,
                   pot_running, pot_raw, pot_frame>>

\* The three threads of a running FourPotMIDISynth.  The keyboard plays the
\* notes of RuntimeNotes (with two keys and room for max_voices voices the
\* pool is never full for a new note, so note_on never reaches its eviction).
\* The pots stand where they give the constructor's volume, cutoff and
\* envelope setting, and the waveform pot has been turned to Square.
RuntimeNotes == {60, 64}
RuntimeReadings == {<<16461, 13167, 2714, 13168>>}

PotNext ==
    \/ pot_test
    \/ \E r \in RuntimeReadings : pot_read(r[1], r[2], r[3], r[4])
    \/ pot_read_error
    \/ pot_volume
    \/ pot_wave
    \/ pot_filter
    \/ pot_envelope

RuntimeMidiNext ==
    \/ \E note \in RuntimeNotes, velocity \in Velocities : note_on_begin(note, velocity)
    \/ note_on_del
    \/ note_on_len
    \/ note_on_insert
    \/ \E note \in RuntimeNotes : note_off_begin(note)
    \/ note_off_release

NextRuntime == AudioNext \/ RuntimeMidiNext \/ PotNext

SpecRuntime == InitThreads /\ [][NextRuntime]_vars

\* ------------------------------------------------- start() and stop()
\* FourPotMIDISynth from its construction to the return of stop(), as main()
\* drives it: start() opens the MIDI port, starts the pot thread, opens the
\* output stream in a "with" statement and loops until Ctrl+C raises
\* KeyboardInterrupt in the main thread; leaving the "with" statement stops
\* and closes the stream, which waits for a callback in progress, and then
\* "finally" calls stop().  The callbacks run on their threads as in
\* SpecRuntime, the audio callback while the stream is active and the MIDI
\* callback while the port is open.
LifeNotes == {60}

\* The parts of vars that start() and stop() never write.
life_frame ==
    <<voices, param_vars, variant, message, delivered, generated, outdata, audio_vars,
      midi_vars>>

\* Mutant of PotJoined: stop() goes on without waiting for the thread.
PotJoined_nowait == TRUE

\* "self.pot_thread.join()" returns once the thread has left its loop.
PotJoined == pot_pc = "done"

\* The positions of the main thread at which stop() has been called.
StopBegun == {"stop", "stop_join", "stop_close", "stopped", "stop_interrupted",
              "stop_raised", "stopped_again"}

InitLifecycle ==
    /\ variant = "FourPot"
    /\ ParamsAre(FourPotDefaults)
    /\ voices = <<>>
    /\ message = <<>>
    /\ delivered = 0
    /\ generated = NoAudio
    /\ outdata = <<"stale", "stale">>
    /\ a_pc = "idle"
    /\ voices_to_remove = <<>>
    /\ a_iter = NoIter
    /\ a_del = 0
    /\ a_args = {}
    /\ a_exc = "none"
    /\ pot_running = FALSE
    /\ pot_pc = "none"
    /\ pot_raw = <<>>
    /\ main_pc = "start"
    /\ running = FALSE
    /\ stream = "none"
    /\ midiin = "none"
    /\ m_pc = "idle"
    /\ m_op = "none"
    /\ m_note = NoNote
    /\ m_velocity = 0
    /\ envelope_params = NoParams
    /\ oldest_note = NoNote
    /\ m_retrig = FALSE
    /\ m_exc = "none"

\* start() up to the return of setup_midi(): the port is opened and the
\* callback set; or the keyboard is not among the ports, which leaves a MidiIn
\* object with no port open and no callback, or rtmidi.MidiIn() raises, which
\* leaves None, and in both cases setup_midi() returns False and start()
\* returns
start_setup_midi ==
    /\ main_pc = "start"
    /\ ~running
    /\ \/ midiin' = "open" /\ main_pc' = "pot_start"
       \/ midiin' \in {"unopened", "none"} /\ main_pc' = "returned"
    /\ UNCHANGED <<running, stream, pot_vars, life_frame>>

\* "self.pot_running = True" ... "self.pot_thread.start()"
start_pot_thread ==
    /\ main_pc = "pot_start"
    /\ pot_running' = TRUE
    /\ pot_pc' = "started"
    /\ main_pc' = "open_stream"
    /\ UNCHANGED <<running, stream, midiin, pot_raw, life_frame>>

\* "with sd.OutputStream(...):" the stream is opened and started, or the
\* audio device refuses and the exception is taken by "except Exception"
start_open_stream ==
    /\ main_pc = "open_stream"
    /\ \/ stream' = "active" /\ main_pc' = "set_running"
       \/ stream' = "none" /\ main_pc' = "stop"
    /\ UNCHANGED <<running, midiin, pot_vars, life_frame>>

\* "self.running = True"; the status loop that follows changes nothing
start_set_running ==
    /\ main_pc = "set_running"
    /\ running' = TRUE
    /\ main_pc' = "loop"
    /\ UNCHANGED <<stream, midiin, pot_vars, life_frame>>

\* Ctrl+C inside the "with" statement
interrupt_in_with ==
    /\ main_pc \in {"set_running", "loop"}
    /\ main_pc' = "with_exit"
    /\ UNCHANGED <<running, stream, midiin, pot_vars, life_frame>>

\* the "with" statement's exit: the stream is stopped and closed once no
\* callback is in progress; "except KeyboardInterrupt" and "finally" follow
start_with_exit ==
    /\ main_pc = "with_exit"
    /\ a_pc = "idle"
    /\ stream' = "closed"
    /\ main_pc' = "stop"
    /\ UNCHANGED <<running, midiin, pot_vars, life_frame>>

\* Ctrl+C between setup_midi() and the "try": nothing in start() takes it,
\* main() prints "Goodbye!" and the process ends without stop()
interrupt_before_try ==
    /\ main_pc \in {"pot_start", "open_stream"}
    /\ main_pc' = "exited"
    /\ UNCHANGED <<running, stream, midiin, pot_vars, life_frame>>

\* stop(): "self.running = False", "self.pot_running = False"
stop_flags ==
    /\ main_pc = "stop"
    /\ running' = FALSE
    /\ pot_running' = FALSE
    /\ main_pc' = "stop_join"
    /\ UNCHANGED <<stream, midiin, pot_pc, pot_raw, life_frame>>

\* "if self.pot_thread: self.pot_thread.join()"
stop_join ==
    /\ main_pc = "stop_join"
    /\ PotJoined
    /\ main_pc' = "stop_close"
    /\ UNCHANGED <<running, stream, midiin, pot_vars, life_frame>>

\* "if self.midiin: self.midiin.close_port(); del self.midiin": the port is
\* closed and the object has no midiin attribute any more ("closed")
stop_close ==
    /\ main_pc = "stop_close"
    /\ midiin' = "closed"
    /\ main_pc' = "stopped"
    /\ UNCHANGED <<running, stream, pot_vars, life_frame>>

\* stop() called once more after stop() has returned, by main()'s "except
\* Exception" handler or by any other holder of the object: the two flags are
\* cleared, join() on the thread that has ended returns at once, and "if
\* self.midiin:" reads the attribute that the first call's "del self.midiin"
\* has removed, which raises AttributeError.
stop_again ==
    /\ main_pc = "stopped"
    /\ running' = FALSE
    /\ pot_running' = FALSE
    /\ main_pc' = IF midiin = "closed" THEN "stop_raised" ELSE "stopped_again"
    /\ UNCHANGED <<stream, midiin, pot_pc, pot_raw, life_frame>>

\* Ctrl+C inside stop(): the exception leaves "finally" and start(), and
\* main() ends the process
interrupt_in_stop ==
    /\ main_pc \in {"stop", "stop_join", "stop_close"}
    /\ main_pc' = "stop_interrupted"
    /\ UNCHANGED <<running, stream, midiin, pot_vars, life_frame>>

MainNext ==
    \/ start_setup_midi
    \/ start_pot_thread
    \/ start_open_stream
    \/ start_set_running
    \/ interrupt_in_with
    \/ start_with_exit
    \/ interrupt_before_try
    \/ stop_flags
    \/ stop_join
    \/ stop_close
    \/ stop_again
    \/ interrupt_in_stop

\* The process is alive: main() has not returned.
Alive == main_pc \notin {"exited", "stop_interrupted"}

\* PortAudio calls audio_callback while the stream is active.
stream_callback == stream = "active" /\ audio_callback_begin

\* Mutant of port_note_on: messages arrive at any MidiIn object, whether or
\* not setup_midi() has opened a port and set the callback on it.
port_note_on_any_object(note, velocity) ==
    midiin # "none" /\ note_on_begin(note, velocity)

\* rtmidi calls midi_callback while the port is open.
port_note_on(note, velocity) == midiin = "open" /\ note_on_begin(note, velocity)

port_note_off(note) == midiin = "open" /\ note_off_begin(note)

NextLifecycle ==
    \/ MainNext
    \/ Alive /\ stream_callback
    \/ Alive /\ audio_callback_loop
    \/ Alive /\ audio_callback_prune
    \/ Alive /\ \E note \in LifeNotes, velocity \in Velocities : port_note_on(note, velocity)
    \/ Alive /\ note_on_del
    \/ Alive /\ note_on_len
    \/ Alive /\ note_on_insert
    \/ Alive /\ \E note \in LifeNotes : port_note_off(note)
    \/ Alive /\ note_off_release
    \/ Alive /\ PotNext

SpecLifecycle == InitLifecycle /\ [][NextLifecycle]_vars

\* The same with the operating system giving the pot thread and the main
\* thread their turns: a thread that can take a step is not left waiting for
\* ever while the process is alive.
SpecLifecycleLive ==
    /\ SpecLifecycle
    /\ WF_vars(Alive /\ PotNext)
    /\ WF_vars(stop_join)

\* ------------------------------------------- midi_callback, any message
\* midi_callback of either class: "msg, deltatime = message", the length
\* test and the if/elif chain on the status byte.  The result is the handler
\* that is called, "none" when the message falls through.
\* Mutant of Dispatch: a Note On with velocity 0 is a Note On.
Dispatch_velocity_unchecked(msg) ==
    IF Len(msg) >= 3
    THEN IF 144 <= msg[1] /\ msg[1] <= 159 THEN "note_on"
         ELSE IF 128 <= msg[1] /\ msg[1] <= 143 THEN "note_off"
         ELSE IF 176 <= msg[1] /\ msg[1] <= 191 THEN "control_change"
         ELSE "none"
    ELSE "none"

Dispatch(msg) ==
    IF Len(msg) >= 3
    THEN IF 144 <= msg[1] /\ msg[1] <= 159 /\ msg[3] > 0 THEN "note_on"
         ELSE IF \/ 128 <= msg[1] /\ msg[1] <= 143
                 \/ 144 <= msg[1] /\ msg[1] <= 159 /\ msg[3] = 0 THEN "note_off"
         ELSE IF 176 <= msg[1] /\ msg[1] <= 191 THEN "control_change"
         ELSE "none"
    ELSE "none"

\* The control-change handler of the class: handle_knob or handle_cc.
ControlChange(P, controller, value) ==
    IF variant = "MPK" THEN handle_knob(P, controller, value)
    ELSE handle_cc(P, controller, value)

\* The inputs.  A message is the list of bytes rtmidi hands over: here every
\* status class at both ends of its range, a key and the knobs' controller
\* numbers (and one past them) as first data byte, every value of a data
\* byte and three bytes above the data range as second, and messages of
\* other lengths.  A pot reading is what the converter returns: the ends of
\* the calibrated ranges, the readings on either side of each waveform
\* threshold, and readings below and above every calibrated range.
MaxDeliveries == 2
InputStatuses == {128, 143, 144, 159, 160, 176, 191, 192, 224}
InputData1 == {60} \cup (70..78)
InputData2 == (0..127) \cup {128, 200, 255}
Messages ==
    {<<status, data1, data2>> :
        status \in InputStatuses, data1 \in InputData1, data2 \in InputData2}
    \cup {<<248>>, <<192, 5>>, <<144, 60>>, <<240, 1, 2, 247>>}
InputReadings ==
    {0 - 5, 0, 4, 15, 6586, 6587, 13168, 13169, 19750, 19751, 26320, 26335, 32767}

\* Either the keyboard sends one message, over and over, to a synth whose
\* pool is empty or holds a voice for key 60, or the keyboard is silent and
\* the pots are turned (FourPotMIDISynth only).
InitInputs ==
    /\ variant \in {"FourPot", "MPK"}
    /\ ParamsAre(IF variant = "MPK" THEN MPKDefaults ELSE FourPotDefaults)
    /\ message \in Messages \cup {<<>>}
    /\ voices \in {<<>>,
                   NoteOnPool(<<>>, 60, 100,
                              IF variant = "MPK" THEN get_synth_params(MPKDefaults)
                              ELSE get_envelope_params(FourPotDefaults.envelope_control))}
    /\ message = <<>> => (variant = "FourPot" /\ voices = <<>>)
    /\ delivered = 0
    /\ generated = NoAudio
    /\ outdata = <<"stale", "stale">>
    /\ a_pc = "idle"
    /\ voices_to_remove = <<>>
    /\ a_iter = NoIter
    /\ a_del = 0
    /\ a_args = {}
    /\ a_exc = "none"
    /\ pot_running = (variant = "FourPot")
    /\ pot_pc = IF variant = "FourPot" THEN "sleep" ELSE "none"
    /\ pot_raw = <<>>
    /\ main_pc = "loop"
    /\ running = TRUE
    /\ stream = "active"
    /\ midiin = "open"
    /\ m_pc = "idle"
    /\ m_op = "none"
    /\ m_note = NoNote
    /\ m_velocity = 0
    /\ envelope_params = NoParams
    /\ oldest_note = NoNote
    /\ m_retrig = FALSE
    /\ m_exc = "none"

\* midi_callback(message, data), run to completion
midi_callback ==
    LET op == Dispatch(message)
        params == NoteOnParams(Params)
    IN  /\ message # <<>>
        /\ delivered < MaxDeliveries
        /\ a_pc = "idle" /\ m_pc = "idle"
        /\ delivered' = delivered + 1
        /\ m_op' = op
        /\ m_exc' = "none"
        /\ CASE op = "note_on" ->
                  /\ voices' = NoteOnPool(voices, message[2], message[3], params)
                  /\ m_note' = message[2]
                  /\ m_velocity' = message[3]
                  /\ envelope_params' = params
                  /\ m_retrig' = (message[2] \in Keys(voices))
                  /\ UNCHANGED param_vars
             [] op = "note_off" ->
                  /\ voices' = NoteOffPool(voices, message[2])
                  /\ m_note' = message[2]
                  /\ m_velocity' = 0
                  /\ m_retrig' = FALSE
                  /\ UNCHANGED <<param_vars, envelope_params>>
             [] op = "control_change" ->
                  /\ SetParams(ControlChange(Params, message[2], message[3]))
                  /\ m_note' = NoNote
                  /\ m_velocity' = 0
                  /\ m_retrig' = FALSE
                  /\ UNCHANGED <<voices, envelope_params>>
             [] OTHER ->
                  /\ m_note' = NoNote
                  /\ m_velocity' = 0
                  /\ m_retrig' = FALSE
                  /\ UNCHANGED <<voices, param_vars, envelope_params>>
        /\ UNCHANGED <<variant, message, generated, pot_vars, life_vars, outdata, audio_vars,
                       m_pc, oldest_note>>

NextInputs ==
    \/ midi_callback
    \/ message = <<>> /\ pot_test
    \/ message = <<>> /\ \E r \in InputReadings : pot_read(r, r, r, r)
    \/ message = <<>> /\ pot_read_error
    \/ message = <<>> /\ pot_volume
    \/ message = <<>> /\ pot_wave
    \/ message = <<>> /\ pot_filter
    \/ message = <<>> /\ pot_envelope

SpecInputs == InitInputs /\ [][NextInputs]_vars

\* ================================================================ claims
FreshVoice(v) ==
    /\ v.envelope_phase = "attack"
    /\ v.envelope_value = 0
    /\ v.envelope_timer = 0
    /\ v.phase = 0
    /\ v.filter_state = 0

C3_RetriggerStartsFresh ==
    [][\A note \in Notes, velocity \in Velocities :
        (NoteOn(note, velocity) /\ note \in Keys(voices))
        => /\ Cardinality({i \in DOMAIN voices' : voices'[i].note = note}) = 1
           /\ FreshVoice(Voice(voices', note))
           /\ ~Voice(voices', note).releasing]_vars

\* A retrigger has just replaced a voice, with another voice in Release
\* beside it.
C3_Witness ==
    /\ m_op = "note_on" /\ m_retrig /\ m_note \in Keys(voices)
    /\ FreshVoice(Voice(voices, m_note))
    /\ \E i \in DOMAIN voices : voices[i].envelope_phase = "release"

C8_FinishedValueIsZero ==
    \A i \in DOMAIN voices :
        is_finished(voices[i]) => voices[i].envelope_value = 0

\* C9 as claimed: once a voice is Finished, neither rendering nor note_off
\* changes its phase.
C9_FinishedIsTerminal ==
    [][\A note \in Notes :
        (/\ note \in Keys(voices)
         /\ is_finished(Voice(voices, note))
         /\ (NoteOff(note) \/ AudioCallback)
         /\ note \in Keys(voices'))
        => is_finished(Voice(voices', note))]_vars

\* C10 as claimed: with attack = 0, decay = 0 and sustain = 0.7 the first
\* render of a new voice leaves it in Sustain at 0.7.
C10_FirstRenderReachesSustain ==
    [][(/\ VoiceGenerate
        /\ FreshVoice(voices[1])
        /\ voices[1].attack_time = 0
        /\ voices[1].decay_time = 0
        /\ 10 * voices[1].sustain_level = 7 * EnvOne)
       => /\ voices'[1].envelope_phase = "sustain"
          /\ 10 * voices'[1].envelope_value = 7 * EnvOne]_vars

\* C4: note_off puts the voice of a sounding note in Release with its timer
\* at 0; every render pass adds dt to the timer of a voice in Release and
\* takes it nowhere but to Finished, which it reaches as soon as the timer
\* is at release_time; a voice in Release has its timer below release_time,
\* that is, it has had fewer than release_time/dt updates since note_off, so
\* update number ceil(release_time/dt) at the latest finishes it; the pass
\* after that removes it; and with the sink calling back the voice is
\* eventually out of the pool.
C4_ReleaseFinishesAndIsPruned ==
    /\ [](\A i \in DOMAIN voices :
            voices[i].envelope_phase = "release"
            => voices[i].envelope_timer < voices[i].release_time)
    /\ [][\A note \in Notes :
            /\ (NoteOff(note) /\ note \in Keys(voices))
               => /\ Voice(voices', note).envelope_phase = "release"
                  /\ Voice(voices', note).envelope_timer = 0
            /\ (AudioCallback /\ note \in Keys(voices)
                              /\ Voice(voices, note).envelope_phase = "release")
               => /\ note \in Keys(voices')
                  /\ Voice(voices', note).envelope_phase \in {"release", "finished"}
                  /\ Voice(voices', note).envelope_timer
                        = Voice(voices, note).envelope_timer + BlockTime(blocksize)
                  /\ (Voice(voices, note).envelope_timer + BlockTime(blocksize)
                        >= Voice(voices, note).release_time)
                     => is_finished(Voice(voices', note))
            /\ (AudioCallback /\ note \in Keys(voices)
                              /\ is_finished(Voice(voices, note)))
               => note \notin Keys(voices')]_vars
    /\ \A note \in Notes : Releasing(note) ~> (note \notin Keys(voices))

\* A voice released two blocks ago has reached Finished and the callback
\* after that has pruned it.
C4_Witness ==
    /\ m_op = "note_off" /\ m_note \notin Keys(voices)
    /\ voices_to_remove = <<m_note>>
    /\ envelope_control = EnvOne \div 2

\* C1: under every interleaving of the MIDI thread's note_on and note_off
\* with the audio thread's audio_callback, the pool never holds more than
\* max_voices voices (and never two voices for one note).
C1_PoolWithinMaxVoices ==
    /\ Len(voices) <= max_voices
    /\ Cardinality(Keys(voices)) = Len(voices)

\* note_on has stolen a voice and inserted its own while audio_callback was
\* inside its loop; the pool is full again.
C1_Witness ==
    /\ Len(voices) = max_voices
    /\ m_op = "note_on" /\ m_pc = "idle" /\ oldest_note # NoNote
    /\ m_note \in Keys(voices)
    /\ a_pc = "loop" /\ a_iter.pos > 0

\* C5 as claimed: between the start of audio_callback's loop and the end of
\* its removal of finished voices no step of the MIDI thread adds an entry to
\* the pool or takes one away.
C5_PoolStableDuringRender ==
    [][(a_pc \in {"loop", "prune"} /\ MidiNext)
       => Keys(voices') = Keys(voices)]_vars

\* C6: a step of audio_callback that raises leaves the buffer all zero and
\* the callback returned to its caller with nothing propagated; the pool is
\* left a well-formed dict, and the next audio_callback starts afresh: its
\* own iterator, an empty removal list and no exception pending.
C6_FaultYieldsSilence ==
    /\ [](a_pc # "propagated")
    /\ [][(AudioNext /\ a_exc' # "none")
          => /\ a_pc' = "idle"
             /\ outdata' = <<"zero", "zero">>
             /\ Cardinality(Keys(voices')) = Len(voices')]_vars
    /\ [][(a_exc # "none" /\ a_pc' # a_pc)
          => /\ audio_callback_begin
             /\ a_exc' = "none"
             /\ voices_to_remove' = <<>>
             /\ a_iter' = [pos |-> 0, len |-> Len(voices), used |-> Len(voices)]]_vars

\* The last callback met a KeyError while pruning (note_on had deleted the
\* finished voice it was about to remove), zeroed the buffer and returned;
\* the pool still holds a voice.
C6_Witness ==
    /\ a_exc = "KeyError" /\ a_pc = "idle"
    /\ outdata = <<"zero", "zero">>
    /\ voices # <<>>

\* C11: for a voice with release_time = 0, release() puts it in Release from
\* whatever phase it was in, and the next generate() (the next envelope
\* update) leaves it Finished.
C11_ZeroReleaseFinishesAtOnce ==
    [][(voices[1].release_time = 0)
       => /\ VoiceRelease => voices'[1].envelope_phase = "release"
          /\ (VoiceGenerate /\ voices[1].envelope_phase = "release")
             => is_finished(voices'[1])]_vars

\* A voice with release_time = 0 and a slow attack was released while still
\* in Attack at a level above 0; the render after that finished it.
C11_Witness ==
    /\ voices[1].release_time = 0 /\ voices[1].attack_time > 0
    /\ voices[1].releasing /\ is_finished(voices[1])
    /\ voices[1].envelope_value > 0 /\ voices[1].envelope_value < EnvOne
    /\ m_op = "generate"

ADSR(v) == <<v.attack_time, v.decay_time, v.sustain_level, v.release_time>>

\* C12: the ADSR settings of a voice are those in effect when its note_on
\* ran (MPKOnlySynth: the four envelope fields; FourPotMIDISynth: the base
\* times scaled by envelope_control), and no later step changes them: a
\* parameter write (handle_knob, handle_cc, a pot update) leaves the pool as
\* it is, and any other step leaves the settings of every voice that stays.
C12_VoiceKeepsItsEnvelope ==
    [][/\ \A note \in ControlNotes :
            (\E velocity \in Velocities : ControlNoteOn(note, velocity))
            => ADSR(Voice(voices', note)) =
                  IF variant = "MPK"
                  THEN <<attack_time, decay_time, sustain_level, release_time>>
                  ELSE ADSR(PolyphonicVoice(note, 100,
                                get_envelope_params(envelope_control)))
       /\ \A note \in Keys(voices) \cap Keys(voices') :
            \/ ADSR(Voice(voices', note)) = ADSR(Voice(voices, note))
            \/ \E velocity \in Velocities : ControlNoteOn(note, velocity)
       /\ (param_vars' # param_vars) => voices' = voices]_vars

\* A knob has just moved release_time away from the setting that a voice in
\* the pool was created with, and the voice still has its own.
C12_Witness ==
    /\ variant = "MPK" /\ m_op = "control_change"
    /\ \E i \in DOMAIN voices :
          /\ voices[i].release_time # release_time
          /\ voices[i].attack_time # 10

\* C13: note_off for a note that has no voice returns at once without an
\* exception and leaves the pool, with every voice in it, as it was; this
\* with the audio thread anywhere in its callback.
C13_NoteOffUnknownNoteIsIgnored ==
    [][\A note \in Notes :
         (note_off_begin(note) /\ note \notin Keys(voices))
         => /\ voices' = voices
            /\ m_pc' = "idle"
            /\ m_exc' = "none"]_vars

\* note_off(67) has returned with 60 and 64 filling the pool, so 67 had no
\* voice when it ran; the audio thread was inside its loop.
C13_Witness ==
    /\ m_op = "note_off" /\ m_note = 67 /\ m_pc = "idle" /\ m_exc = "none"
    /\ Keys(voices) = {60, 64}
    /\ a_pc = "loop"
\* C14: within one block every voice is rendered with the same waveform,
\* filter_cutoff and detune, whatever the MIDI and pot threads write while
\* the block is rendered: the generate() calls of a block are never given
\* two different triples.
C14_OneSnapshotPerBlock == Cardinality(a_args) <= 1

\* C15: audio_callback never waits for the MIDI or the pot thread.  In every
\* state in which a callback has started, wherever the other two threads
\* are, the audio thread has a step of its own to take; and each step it
\* takes either ends the callback or moves it one entry on in a loop over a
\* list that only other threads' steps can lengthen, so the callback ends
\* after finitely many steps of its own.
C15_AudioNeverWaits ==
    /\ [](a_pc \in {"loop", "prune"} => ENABLED AudioNext)
    /\ [][(AudioNext /\ a_pc = "loop")
            => \/ a_pc' \in {"prune", "idle"}
               \/ /\ a_pc' = "loop"
                  /\ a_iter.pos < Len(voices)
                  /\ a_iter'.pos = a_iter.pos + 1]_vars
    /\ [][(AudioNext /\ a_pc = "prune")
            => \/ a_pc' = "idle"
               \/ /\ a_pc' = "prune"
                  /\ a_del < Len(voices_to_remove)
                  /\ a_del' = a_del + 1
                  /\ UNCHANGED voices_to_remove]_vars

\* A callback that has reached its deletions while the pot thread is inside
\* a read of the converter and the MIDI thread is inside note_on.
C15_Witness ==
    /\ a_pc = "prune"
    /\ a_del < Len(voices_to_remove)
    /\ pot_pc = "read"
    /\ m_pc = "on_insert"


\* C16: teardown ordering.  No audio_callback is invoked once stop() has
\* been called; and the MIDI port is closed only after the pot thread has
\* left its loop, so with the port closed the pot thread is finished and the
\* parameter fields are written no more.
C16_TeardownOrdering ==
    /\ [][audio_callback_begin => main_pc \notin StopBegun]_vars
    /\ [](midiin = "closed" => (pot_pc = "done" /\ ~pot_running))
    /\ [][midiin = "closed" => UNCHANGED param_vars]_vars

\* stop() has returned after a session in which the pot thread completed a
\* round and audio blocks were played.
C16_Witness ==
    /\ main_pc = "stopped"
    /\ midiin = "closed"
    /\ stream = "closed"
    /\ pot_pc = "done"
    /\ waveform = 1
    /\ outdata = <<"audio", "audio">>

\* C17: midi_callback's dispatch.  A 3-byte message with status 0x90-0x9F
\* and data2 > 0 does what note_on(data1, data2) does and nothing else; one
\* with status 0x80-0x8F, or 0x90-0x9F and data2 = 0, does what
\* note_off(data1) does and nothing else, and so adds no voice; one with
\* status 0xB0-0xBF runs the control-change handler and leaves the pool as
\* it is; a message with another status, or shorter than 3 bytes, changes
\* neither the pool nor any parameter.
C17_Dispatch ==
    [][midi_callback =>
        LET len == Len(message)
            status == message[1]
            data1 == message[2]
            data2 == message[3]
            InRange(lo, hi) == lo <= status /\ status <= hi
        IN  /\ (len = 3 /\ InRange(144, 159) /\ data2 > 0)
                 => /\ voices' = NoteOnPool(voices, data1, data2, NoteOnParams(Params))
                    /\ UNCHANGED param_vars
            /\ (len = 3 /\ (InRange(128, 143) \/ (InRange(144, 159) /\ data2 = 0)))
                 => /\ voices' = NoteOffPool(voices, data1)
                    /\ Keys(voices') = Keys(voices)
                    /\ UNCHANGED param_vars
            /\ (len = 3 /\ InRange(176, 191))
                 => /\ voices' = voices
                    /\ Params' = ControlChange(Params, data1, data2)
            /\ (len < 3 \/ ~(InRange(128, 159) \/ InRange(176, 191)))
                 => UNCHANGED <<voices, param_vars>>]_vars

\* A Note On with velocity 0 for key 60 has been delivered to a pool that
\* held a voice for 60: the voice is releasing and no voice was added.
C17_Witness ==
    /\ delivered >= 1
    /\ message = <<144, 60, 0>>
    /\ m_op = "note_off"
    /\ Keys(voices) = {60}
    /\ Voice(voices, 60).releasing

\* C18: a control change is idempotent.  Delivering the same control-change
\* message (status 0xB0-0xBF, any controller, any value) again changes
\* nothing: the state after handle_knob(c, v) or handle_cc(c, v) twice is the
\* state after once.
C18_ControlChangeIdempotent ==
    [][(/\ midi_callback
        /\ delivered >= 1
        /\ Len(message) >= 3 /\ 176 <= message[1] /\ message[1] <= 191)
       => UNCHANGED <<voices, param_vars>>]_vars

\* Knob 1 of MPKOnlySynth at 100 has been delivered twice, and the volume
\* is the one that value sets.
C18_Witness ==
    /\ variant = "MPK"
    /\ delivered = 2
    /\ message = <<176, 70, 100>>
    /\ m_op = "control_change"
    /\ master_volume = (8 * EnvOne * 100) \div (10 * MidiMax)
    /\ master_volume # MPKDefaults.master_volume

\* C19: whatever the raw input (a pot reading outside its calibrated range,
\* a controller value outside 0..127), the parameters stay within their
\* bounds: master_volume in [0, 0.8], waveform in 0..3, filter_cutoff in
\* [200, 8000], envelope_control and the sustain level in [0, 1].
C19_ParametersStayInBounds ==
    /\ 0 <= master_volume /\ 10 * master_volume <= 8 * EnvOne
    /\ waveform \in 0..3
    /\ 200 <= filter_cutoff /\ filter_cutoff <= 8000
    /\ 0 <= envelope_control /\ envelope_control <= EnvOne
    /\ 0 <= sustain_level /\ sustain_level <= EnvOne

\* C20: the waveform chosen from a normalized value x: Sine below 0.25,
\* Square from 0.25 to below 0.5, Sawtooth from 0.5 to below 0.75, Triangle
\* from 0.75.  For the waveform pot x is (reading - 4) / (26333 - 4) held to
\* [0, 1]; for knob 2 of MPKOnlySynth (CC 71) with value v in 0..127 x is
\* v / 127, which gives Sine for v <= 31, Square for 32..63, Sawtooth for
\* 64..95 and Triangle for 96..127.
C20_WaveformBands ==
    /\ [][pot_wave =>
            LET span == 26333 - 4
                num == IF pot_raw[2] < 4 THEN 0
                       ELSE IF pot_raw[2] > 26333 THEN span
                       ELSE pot_raw[2] - 4
            IN  waveform' = IF 4 * num < span THEN 0
                            ELSE IF 4 * num < 2 * span THEN 1
                            ELSE IF 4 * num < 3 * span THEN 2
                            ELSE 3]_vars
    /\ [][(/\ midi_callback
           /\ variant = "MPK"
           /\ Len(message) = 3 /\ 176 <= message[1] /\ message[1] <= 191
           /\ message[2] = 71
           /\ message[3] \in 0..127)
          => waveform' = IF message[3] <= 31 THEN 0
                         ELSE IF message[3] <= 63 THEN 1
                         ELSE IF message[3] <= 95 THEN 2
                         ELSE 3]_vars

\* The waveform pot read just above the first threshold (6587, where x is a
\* little over 0.25) has selected Square.
C20_Witness ==
    /\ pot_pc = "filter"
    /\ pot_raw[2] = 6587
    /\ waveform = 1

\* C21: detune scaling.  In FourPotMIDISynth CC 70 with value v in 0..127
\* sets detune to (v - 64) * 2 cents, within +-128 cents; in MPKOnlySynth
\* CC 77 sets it to (v/127 - 0.5) * 200 cents, within +-100 cents; no other
\* message changes detune in either class.  (detune is held in units of
\* 1/MidiMax cent.)
C21_DetuneScaling ==
    [][midi_callback =>
        LET cc == Len(message) = 3 /\ 176 <= message[1] /\ message[1] <= 191
            v == message[3]
        IN  /\ (cc /\ variant = "FourPot" /\ message[2] = 70 /\ v \in 0..127)
                 => /\ detune' = (v - 64) * 2 * MidiMax
                    /\ 0 - 128 * MidiMax <= detune' /\ detune' <= 128 * MidiMax
            /\ (cc /\ variant = "MPK" /\ message[2] = 77 /\ v \in 0..127)
                 => /\ detune' = 200 * v - 100 * MidiMax
                    /\ 0 - 100 * MidiMax <= detune' /\ detune' <= 100 * MidiMax
            /\ ~(cc /\ (\/ variant = "FourPot" /\ message[2] = 70
                        \/ variant = "MPK" /\ message[2] = 77))
                 => detune' = detune]_vars

\* Knob 1 of FourPotMIDISynth turned fully down: detune is -128 cents.
C21_Witness ==
    /\ variant = "FourPot"
    /\ delivered >= 1
    /\ message = <<176, 70, 0>>
    /\ m_op = "control_change"
    /\ detune = 0 - 128 * MidiMax

\* C22: generate() on a voice that is not finished runs the one-pole
\* filter exactly when filter_cutoff < 6000 and the waveform is Square (1)
\* or Sawtooth (2).  Otherwise the filter is bypassed: the filter memory is
\* left as it was and the block is the oscillator's samples times the
\* envelope value of this update times the velocity.
C22_FilterAppliedIff ==
    [][(VoiceGenerate /\ voices[1].envelope_phase # "finished") =>
        LET wf == generated'.waveform
            cutoff == generated'.filter_cutoff
        IN  IF cutoff < 6000 /\ (wf = 1 \/ wf = 2)
            THEN /\ generated'.source = "filtered"
                 /\ voices'[1].filter_state = 1
            ELSE /\ generated'.source = "raw"
                 /\ voices'[1].filter_state = voices[1].filter_state
                 /\ generated'.envelope = voices'[1].envelope_value
                 /\ generated'.velocity = voices[1].velocity]_vars

\* Square at cutoff 8000 rendered on a voice whose filter memory an earlier
\* block had written: bypassed, the memory kept.
C22_Witness ==
    /\ m_op = "generate"
    /\ generated.source = "raw"
    /\ generated.waveform = 1
    /\ generated.filter_cutoff = 8000
    /\ generated.envelope > 0
    /\ voices[1].filter_state = 1

\* C23: whatever the number of voices sounding (up to max_voices, all at
\* full scale) and whatever master_volume, no sample that audio_callback
\* writes has a magnitude above 1.2.
C23_OutputWithinLimit ==
    [][AudioCallback => 10 * OutputPeak <= 12 * EnvOne]_vars

\* A block has been written with max_voices voices at full velocity, their
\* envelopes at 1.0, and the volume at 0.8.
C23_Witness ==
    /\ outdata = <<"audio", "audio">>
    /\ Len(voices) = max_voices
    /\ \A i \in DOMAIN voices :
          /\ voices[i].envelope_value = EnvOne
          /\ voices[i].velocity = <<127, 127>>
          /\ voices[i].phase = 1
    /\ 10 * master_volume = 8 * EnvOne

\* C24: under every interleaving, whenever audio_callback deletes a pool
\* entry the voice stored under that note at that moment is Finished; a
\* voice that note_on created after the callback's finished-check is not
\* deleted by that callback.
C24_PruneOnlyFinished ==
    [][(audio_callback_prune /\ Len(voices') < Len(voices))
       => is_finished(Voice(voices, voices_to_remove[a_del + 1]))]_vars

\* C25: under every interleaving with audio_callback, when midi_callback
\* returns from a Note On for note n, no exception was raised and the pool
\* holds the voice that this call created for n.
C25_NoteOnTakesEffect ==
    [][(m_op = "note_on" /\ m_pc # "idle" /\ m_pc' = "idle")
       => /\ m_exc' = "none"
          /\ m_note \in Keys(voices')
          /\ FreshVoice(Voice(voices', m_note))]_vars

\* C26: release() puts the voice in Release with its phase timer at 0,
\* whatever phase it was in (Release included: the timer starts again), and
\* leaves the envelope value, the oscillator phase, the filter memory and
\* the ADSR settings as they were.
C26_ReleaseResetsTimerOnly ==
    [][VoiceRelease =>
        LET v == voices[1]
            w == voices'[1]
        IN  /\ w.envelope_phase = "release"
            /\ w.envelope_timer = 0
            /\ w.envelope_value = v.envelope_value
            /\ w.phase = v.phase
            /\ w.filter_state = v.filter_state
            /\ w.attack_time = v.attack_time /\ w.decay_time = v.decay_time
            /\ w.sustain_level = v.sustain_level /\ w.release_time = v.release_time
            /\ w.note = v.note /\ w.velocity = v.velocity]_vars

\* A voice with release_time 600 ms that had spent 400 ms in Release, its
\* value down to a third of the sustain level, has been
\* released again: the timer is back at 0 and the value is kept.
C26_Witness ==
    /\ m_op = "release"
    /\ voices[1].envelope_phase = "release"
    /\ voices[1].envelope_timer = 0
    /\ voices[1].release_time = 600
    /\ voices[1].sustain_level = (7 * EnvOne) \div 10
    /\ 3 * voices[1].envelope_value = voices[1].sustain_level

\* The place of a phase in the order Attack, Decay, Sustain, Release,
\* Finished.
PhaseRank(p) ==
    CASE p = "attack" -> 0
      [] p = "decay" -> 1
      [] p = "sustain" -> 2
      [] p = "release" -> 3
      [] p = "finished" -> 4

\* C27: a voice's phase only moves forward in the order Attack, Decay,
\* Sustain, Release, Finished; rendering (update_envelope) only takes the
\* steps Attack to Decay, Decay to Sustain and Release to Finished; Release
\* is entered only by release(); Finished is entered only from Release.
C27_PhaseOrder ==
    [][LET p == voices[1].envelope_phase
           q == voices'[1].envelope_phase
       IN  /\ PhaseRank(q) >= PhaseRank(p)
           /\ (m_op' = "generate" /\ q # p)
                => <<p, q>> \in {<<"attack", "decay">>, <<"decay", "sustain">>,
                                 <<"release", "finished">>}
           /\ (q = "release" /\ p # "release") => m_op' = "release"
           /\ (q = "finished" /\ p # "finished") => p = "release"]_vars

\* C28: between two consecutive envelope updates that both leave the voice
\* in the same phase, the value does not fall in Attack, does not rise in
\* Decay, stays the same in Sustain and does not rise in Release, whatever
\* note_off calls arrive in between.
C28_MonotonicWithinPhase ==
    [][(/\ m_op' = "generate"
        /\ generated.source \in {"raw", "filtered"}
        /\ generated'.source \in {"raw", "filtered"}
        /\ generated'.envelope_phase = generated.envelope_phase)
       => CASE generated.envelope_phase = "attack" ->
                  generated'.envelope >= generated.envelope
            [] generated.envelope_phase = "decay" ->
                  generated'.envelope <= generated.envelope
            [] generated.envelope_phase = "sustain" ->
                  generated'.envelope = generated.envelope
            [] generated.envelope_phase = "release" ->
                  generated'.envelope <= generated.envelope
            [] OTHER -> TRUE]_vars

\* C29: with release_time > 0, the k-th envelope update after release()
\* leaves the value at sustain_level * (1 - min(1, k*dt/release_time)),
\* whatever the value was when release() was called: the first update after
\* release() gives the value for k = 1, and an update that follows an update
\* which gave the value for k gives the value for k + 1.  Levels are in
\* units of 1/EnvOne, rounded down.
C29_ReleaseRampsFromSustain ==
    [][LET v == voices[1]
           w == voices'[1]
           dt == BlockTime(VoiceFrames)
           Ramp(k) == (v.sustain_level
                         * (EnvOne - Min(EnvOne, (k * dt * EnvOne) \div v.release_time)))
                      \div EnvOne
       IN  (/\ m_op' = "generate"
            /\ v.envelope_phase = "release"
            /\ v.release_time > 0)
           => /\ m_op = "release" => w.envelope_value = Ramp(1)
              /\ m_op = "generate"
                   => \E k \in 1..(v.release_time \div dt) :
                         /\ k * dt < v.release_time
                         /\ v.envelope_value = Ramp(k)
                         /\ w.envelope_value = Ramp(k + 1)]_vars

\* A voice with release_time 600 ms and dt = 200 ms is in Release after its
\* second update there, at a third of its sustain level; its attack takes
\* 600 ms, so that a release() during Attack found a value below 1.
C29_Witness ==
    /\ m_op = "generate"
    /\ voices[1].envelope_phase = "release"
    /\ voices[1].release_time = 600
    /\ voices[1].attack_time = 600
    /\ voices[1].envelope_timer = 2 * BlockTime(VoiceFrames)
    /\ 3 * voices[1].envelope_value = voices[1].sustain_level
    /\ generated.envelope = voices[1].envelope_value

\* C30: a voice in Sustain is still in the pool, in Sustain and at its
\* sustain level after any step that is not a note_off for its note, a
\* note_on for its note or a note_on that evicts it; an audio callback in
\* particular neither prunes it nor moves it to another phase.
C30_SustainHolds ==
    [][\A i \in DOMAIN voices :
          voices[i].envelope_phase = "sustain"
          => LET n == voices[i].note
             IN  \/ NoteOff(n)
                 \/ \E velocity \in Velocities : NoteOn(n, velocity)
                 \/ \E note \in Notes, velocity \in Velocities :
                       /\ NoteOn(note, velocity)
                       /\ PoolFull(voices) /\ n = MinKey(voices)
                 \/ /\ n \in Keys(voices')
                    /\ Voice(voices', n).envelope_phase = "sustain"
                    /\ Voice(voices', n).envelope_value = voices[i].sustain_level
                    /\ Voice(voices', n).sustain_level = voices[i].sustain_level]_vars

\* An audio callback has rendered a voice that was in Sustain before it and
\* pruned nothing: the voice is in Sustain with a timer that a callback
\* has run to its cap after its decay ended, beside a second voice.
C30_Witness ==
    /\ outdata = <<"audio", "audio">>
    /\ voices_to_remove = <<>>
    /\ Len(voices) = 2
    /\ \E i \in DOMAIN voices :
          /\ voices[i].envelope_phase = "sustain"
          /\ voices[i].envelope_value = voices[i].sustain_level
          /\ voices[i].envelope_timer = TimerCap
          /\ voices[i].decay_time < BlockTime(blocksize)

\* C31: note_on for a note that has a voice in a full pool replaces that
\* voice alone: the pool keeps its size and its notes, every other voice is
\* as it was, nothing is evicted.
C31_RetriggerBeforeStealing ==
    [][\A note \in Notes, velocity \in Velocities :
        (NoteOn(note, velocity) /\ note \in Keys(voices)
                                /\ Len(voices) = max_voices)
        => /\ Len(voices') = Len(voices)
           /\ Keys(voices') = Keys(voices)
           /\ \A k \in Keys(voices) \ {note} : Voice(voices', k) = Voice(voices, k)
           /\ FreshVoice(Voice(voices', note))
           /\ oldest_note' = NoNote]_vars

\* A retrigger has just run on a full pool whose lowest note is another
\* note, rendered before: that voice is still there and nothing was evicted.
C31_Witness ==
    /\ m_op = "note_on" /\ m_retrig /\ oldest_note = NoNote
    /\ Len(voices) = max_voices
    /\ MinKey(voices) # m_note
    /\ Voice(voices, MinKey(voices)).phase = 1
    /\ FreshVoice(Voice(voices, m_note))

C33_EnvelopeValueInUnitRange ==
    \A i \in DOMAIN voices :
        (/\ voices[i].sustain_level \in 0..EnvOne
         /\ voices[i].attack_time >= 0 /\ voices[i].decay_time >= 0
         /\ voices[i].release_time >= 0)
        => voices[i].envelope_value \in 0..EnvOne

\* A voice with a 300 ms release and dt = 200 ms has had its second update
\* in Release, 100 ms past the end of the ramp: the value is 0, not below.
C33_Witness ==
    /\ m_op = "generate"
    /\ voices[1].release_time = 300
    /\ voices[1].sustain_level = EnvOne
    /\ voices[1].envelope_phase = "finished"
    /\ voices[1].envelope_timer > voices[1].release_time
    /\ voices[1].envelope_value = 0
    /\ generated.source # "zeros"

\* C34: a round of audio_callback's loop that calls generate() on a voice
\* changes, of that voice, at most its oscillator phase, filter memory and
\* envelope phase, value and timer; every other voice, the pool's membership
\* and order, and the shared parameters are as before.
C34_GenerateTouchesOwnStateOnly ==
    [][(/\ a_pc = "loop"
        /\ a_iter'.pos = a_iter.pos + 1
        /\ a_iter.pos < Len(voices)
        /\ ~is_finished(voices[a_iter.pos + 1]))
       => LET i == a_iter.pos + 1
          IN  /\ Len(voices') = Len(voices)
              /\ \A j \in DOMAIN voices : j # i => voices'[j] = voices[j]
              /\ voices'[i] = [voices[i] EXCEPT
                                  !.phase = voices'[i].phase,
                                  !.filter_state = voices'[i].filter_state,
                                  !.envelope_phase = voices'[i].envelope_phase,
                                  !.envelope_value = voices'[i].envelope_value,
                                  !.envelope_timer = voices'[i].envelope_timer]
              /\ UNCHANGED param_vars]_vars

\* The loop has rendered the first of two voices, a released one, and has
\* not come to the second, which is as note_on made it.
C34_Witness ==
    /\ a_pc = "loop" /\ a_iter.pos = 1 /\ a_args # {}
    /\ Len(voices) = 2
    /\ voices[1].phase = 1 /\ voices[1].releasing
    /\ FreshVoice(voices[2])

\* C35: when setup_midi() has returned False and start() has returned, in
\* every state from then on the pot thread was never started, no stream was
\* opened, running and pot_running are False, and neither callback has run:
\* the pool is empty, the output buffer unwritten, both callback threads at
\* rest with no handler ever entered.
C35_NoControllerNoStart ==
    main_pc = "returned"
    => /\ ~running /\ ~pot_running
       /\ pot_pc = "none" /\ pot_raw = <<>>
       /\ stream = "none"
       /\ midiin \in {"unopened", "none"}
       /\ a_pc = "idle" /\ a_exc = "none" /\ outdata = <<"stale", "stale">>
       /\ m_pc = "idle" /\ m_op = "none"
       /\ voices = <<>>

\* start() has returned because the keyboard was not among the MIDI ports.
C35_Witness ==
    /\ main_pc = "returned"
    /\ midiin = "unopened"
    /\ ~running

\* C36 as claimed: a second call of stop(), after a first one that followed
\* a successful setup_midi(), completes without raising and leaves running
\* and pot_running False.
C36_SecondStopCompletes ==
    [][stop_again => /\ main_pc' = "stopped_again"
                     /\ ~running' /\ ~pot_running']_vars

\* C37: once stop() has cleared pot_running, the pot thread does not begin
\* another round after the one it is in, whether that round stores its
\* readings or ends in a read error, and it leaves its loop, so that the
\* join in stop() returns (unless Ctrl+C ends the process first); while
\* pot_running is True a read error sends the thread to its sleep and back
\* to the next read, never out of the loop.
C37_PotThreadTerminates ==
    /\ [][(~pot_running /\ pot_pc \notin {"none", "read"}) => pot_pc' # "read"]_vars
    /\ [][(pot_pc = "read" /\ pot_pc' # "read") => pot_pc' \in {"volume", "error"}]_vars
    /\ [][(pot_pc = "error" /\ pot_running /\ pot_pc' # "error") => pot_pc' = "read"]_vars
    /\ (pot_pc # "none" /\ ~pot_running) ~> (pot_pc = "done" \/ ~Alive)
    /\ (main_pc = "stop_join") ~> (main_pc # "stop_join")

\* stop() has cleared the flag and waits in join(); the round the thread
\* was in has ended in a read error, and the thread is about to test the
\* flag.
C37_Witness ==
    /\ main_pc = "stop_join"
    /\ ~pot_running
    /\ pot_pc = "error"

====
